---- MODULE Spec2Model ----
(***************************************************************************)
(* Batch-scrape orchestration of puppeteer-render-server.                  *)
(*                                                                         *)
(* Two implementations of the same loop are modelled side by side:         *)
(*   impl = "local"   runBulkScrape        (src/local-bulk-scrape.js)      *)
(*   impl = "server"  POST /bulk-scrape    (src/server.js)                 *)
(*                                                                         *)
(* A step of the model is the code that runs between two awaits.  The      *)
(* browser engine, the target site and the ingestion service are the       *)
(* environment: each awaited operation may succeed or fail, an operation   *)
(* on a disconnected browser or a closed page can only fail, and the       *)
(* browser in use may crash and the page in use may close at any await.    *)
(*                                                                         *)
(* Browsers are numbered 1, 2, ... in launch order.  Every browser gets at *)
(* most one page (newPage is called once after each launch), so a page is  *)
(* named by the number of the browser it belongs to; 0 is `undefined`.     *)
(* The location map is represented by the sequence Object.entries yields.  *)
(*                                                                         *)
(* Further specifications over the same variables:                         *)
(*   SpecInput     the arguments as supplied, before normalization         *)
(*   SpecGuarded   the memory-guarded handler (src/unnamed/part_000)       *)
(*   SpecRequests  several requests served by one server process           *)
(*   SpecTotals    the runs of Spec with the ingestion responses recorded  *)
(*   SpecUrl       transformJobUrl on its own                              *)
(*   SpecUnit      one unit, operation by operation                        *)
(*   SpecLive      Spec with every due step of the program taken           *)
(*   SpecRecord    the id and the url of one extracted record              *)
(*   SpecSingle    one POST /scrape request and its scrapePage call        *)
(*   SpecSingleLive  SpecSingle with every awaited operation settling      *)
(*   SpecLongRun   the errors list of the guarded handler, unit by unit    *)
(***************************************************************************)
EXTENDS Integers, Sequences, FiniteSets, TLC

\* ---------------------------------------------------------------- bounds
NumKeywords == 2      \* longest keyword list explored
NumLocations == 2     \* largest location map explored
MaxBrowsers == 3      \* launches that can succeed in one run; later ones fail
MaxJobs == 1          \* most records one unit extracts
MaxInserted == 2      \* largest `inserted` an ingestion response reports
MaxUnits == 4         \* largest unit matrix explored (|T| x |L|)
MaxFaults == 2        \* environment faults injected while the loop runs

VARIABLES
  impl,          \* which implementation runs
  envSet,        \* INGEST_JOB_URL and SUPABASE_SERVICE_ROLE_KEY are set
  keywordList,   \* normalized keywords, in the order supplied
  locationMap,   \* entries of the location map, in enumeration order
  pc,            \* position of the run
  ki, li,        \* positions of the two nested loops
  browser, page, \* the handles held by the loop
  nLaunched,     \* browsers launched so far (they are 1..nLaunched)
  connected,     \* browsers whose isConnected() is true
  closedB,       \* browsers whose close() has completed
  pageOpen,      \* pages created and not closed (isClosed() false)
  err,           \* the exception travelling to the unit's catch block
  exc,           \* an exception is propagating out of the outer try
  totalScraped, totalInserted, errors,
  outcome,       \* what the caller got: "none", "summary" or "error"
  started,       \* units whose iteration began, in order
  delays,        \* units after which the inter-unit delay ran
  dispatched,    \* calls of sendBulkJobsToSupabase: unit and batch size
  navs,          \* page.goto calls issued, with the session state then
  extracted,     \* units whose extraction returned, with the record count
  recLog,        \* recovery attempts: unit, place and result
  crashed,       \* units that failed with the browser seen disconnected
  faults,        \* environment faults injected so far
  rawKeywords,   \* the `keywords` argument as supplied (an array)
  rawLocations,  \* the ids of the `locations` argument as supplied
  memStops,      \* firings of the memory guard: units started by then
  handlers,      \* the /bulk-scrape requests being served side by side
  audit,         \* the ingestion responses are being recorded
  responses,     \* `inserted` of each successful ingestion response
  jobUrl,        \* a job URL as extracted from a result card
  urlOut,        \* transformJobUrl applied to it once, then once more
  trail,         \* one unit followed closely: its operations, in order
  screenshots,   \* the `screenshots` list: tags of the stored captures
  onListing,     \* page.url() contains 'linkedin.com/jobs/search'
  cards,         \* the result cards in the DOM when they are extracted
  jobs,          \* the unit's records, as extracted and then stamped
  clock,         \* the system clock read by `new Date()`
  sent           \* the batches passed to sendBulkJobsToSupabase

vars == <<impl, envSet, keywordList, locationMap, pc, ki, li, browser, page,
          nLaunched, connected, closedB, pageOpen, err, exc, totalScraped,
          totalInserted, errors, outcome, started, delays, dispatched,
          navs, extracted, recLog, crashed, faults, rawKeywords,
          rawLocations, memStops, handlers, audit, responses, jobUrl,
          urlOut, trail, screenshots, onListing, cards, jobs, clock, sent>>

\* ------------------------------------------------------------- helpers
NoErr == [msg |-> "none", src |-> "none"]

\* Messages are classified by the test of line 546:
\* "targetClosed" matches /Target closed|detached Frame/i, "other" does not.
\* "noListings" is the message 'No job listings found on page', which does
\* not match either.
Msgs == {"other", "targetClosed"}

unit == <<keywordList[ki], locationMap[li]>>

isConnected(b) == b \in connected
isClosed(p) == p \notin pageOpen

\* A page operation can succeed only on an open page of a connected browser.
PageUsable(p) == p # 0 /\ p \in pageOpen /\ p \in connected

\* Browsers launched by the run and not yet closed.
Live == (1..nLaunched) \ closedB

\* The environment misbehaves of its own accord while the loop runs (a
\* crash, a failed relaunch, a timeout, a rejected request): at most
\* MaxFaults times in a run.  The failure of an operation on a dead session
\* is no fault of this kind, nor are the failures of the one initial launch
\* and of the one final close.
Fault == faults < MaxFaults /\ faults' = faults + 1
NoFault == faults' = faults

\* No unit is being followed closely.
UnitIdle ==
  /\ trail = <<>> /\ screenshots = <<>> /\ onListing = FALSE
  /\ cards = <<>> /\ jobs = <<>> /\ clock = 0 /\ sent = <<>>

\* --------------------------------------------------------------- Init
Init ==
  /\ impl \in {"local", "server"}
  /\ envSet \in BOOLEAN
  /\ (impl = "server" => envSet)      \* server.js exits at start-up otherwise
  /\ keywordList \in {[i \in 1..n |-> i] : n \in 0..NumKeywords}
  /\ locationMap \in {[i \in 1..n |-> i] : n \in 0..NumLocations}
  /\ Len(keywordList) * Len(locationMap) <= MaxUnits
  /\ pc = "start"
  /\ ki = 1 /\ li = 1
  /\ browser = 0 /\ page = 0
  /\ nLaunched = 0 /\ connected = {} /\ closedB = {} /\ pageOpen = {}
  /\ err = NoErr /\ exc = FALSE
  /\ totalScraped = 0 /\ totalInserted = 0 /\ errors = <<>>
  /\ outcome = "none"
  /\ started = <<>> /\ delays = <<>> /\ dispatched = <<>>
  /\ navs = <<>> /\ extracted = <<>> /\ recLog = <<>> /\ crashed = {}
  /\ faults = 0
  /\ rawKeywords = <<>> /\ rawLocations = <<>>
  /\ memStops = <<>>
  /\ handlers = <<>>
  /\ audit = FALSE /\ responses = <<>>
  /\ jobUrl = <<>> /\ urlOut = <<>>
  /\ UnitIdle

\* ------------------------------------------------------- frame groups
rawVars == <<rawKeywords, rawLocations>>
guardVars == <<memStops>>
requestVars == <<impl, envSet, keywordList, locationMap, rawVars>>
urlVars == <<jobUrl, urlOut>>
unitVars == <<trail, screenshots, onListing, cards, jobs, clock, sent>>
auxVars == <<handlers, audit, urlVars, unitVars>>
respVars == <<responses>>
inputVars == <<requestVars, guardVars, auxVars, respVars>>
loopVars == <<ki, li>>
handleVars == <<browser, page>>
engineVars == <<nLaunched, connected, closedB, pageOpen>>
totalVars == <<totalScraped, totalInserted>>
recVars == <<recLog, crashed>>
logVars == <<started, delays, dispatched, navs, extracted>>

\* ----------------------------------------------- validation and launch
\* runBulkScrape lines 487-495, /bulk-scrape handler lines 149-162.
Validate ==
  /\ pc = "start"
  /\ IF Len(keywordList) = 0 \/ Len(locationMap) = 0
       THEN IF impl = "local"
              THEN pc' = "rejected" /\ outcome' = outcome
              ELSE pc' = "done" /\ outcome' = "error"
       ELSE pc' = "launch" /\ outcome' = outcome
  /\ NoFault
  /\ UNCHANGED <<inputVars, loopVars, handleVars, engineVars, err, exc,
                 totalVars, errors, logVars, recVars>>

\* What the caller gets when an exception leaves the outer try with no
\* browser to close: runBulkScrape rejects, the handler answers 500.
Raise ==
  IF impl = "local"
    THEN pc' = "rejected" /\ outcome' = outcome
    ELSE pc' = "done" /\ outcome' = "error"

\* launchBrowser, newPage, setupPage at the head of the outer try.
LaunchInitial ==
  /\ pc = "launch"
  /\ \E r \in {"launchFail", "pageFail", "setupFail", "ok"} :
       /\ r # "launchFail" => nLaunched < MaxBrowsers
       /\ NoFault
       /\ IF r = "launchFail"
            THEN /\ UNCHANGED <<handleVars, engineVars, exc>>
                 /\ Raise
            ELSE /\ nLaunched' = nLaunched + 1
                 /\ connected' = connected \cup {nLaunched + 1}
                 /\ browser' = nLaunched + 1
                 /\ closedB' = closedB
                 /\ IF r = "pageFail"
                      THEN page' = page /\ pageOpen' = pageOpen
                      ELSE /\ page' = nLaunched + 1
                           /\ pageOpen' = pageOpen \cup {nLaunched + 1}
                 /\ exc' = (r # "ok")
                 /\ pc' = IF r = "ok" THEN "loop" ELSE "finally"
                 /\ outcome' = IF r # "ok" /\ impl = "server"
                                 THEN "error" ELSE outcome
  /\ UNCHANGED <<inputVars, loopVars, err, totalVars, errors, logVars,
                 recVars>>

\* ------------------------------------------------------------ the loop
\* The loops nested the other way round: locations outside, keywords inside.
NextPosLocationsOuter(k, l) ==
  IF k < Len(keywordList) THEN <<k + 1, l>>
  ELSE IF l < Len(locationMap) THEN <<1, l + 1>>
  ELSE <<0, 0>>

\* The matrix is gone through again when it is exhausted.
NextPosStartsOver(k, l) ==
  IF l < Len(locationMap) THEN <<k, l + 1>>
  ELSE IF k < Len(keywordList) THEN <<k + 1, 1>>
  ELSE <<1, 1>>

\* The position after <<k, l>> in `for keyword ... for location ...`;
\* <<0, 0>> when both loops are exhausted.
NextPos(k, l) ==
  IF l < Len(locationMap) THEN <<k, l + 1>>
  ELSE IF k < Len(keywordList) THEN <<k + 1, 1>>
  ELSE <<0, 0>>

\* No health check at the head of the iteration.
NeverRelaunch(b) == FALSE

\* The health check at the head of each iteration: `!browser.isConnected()`.
NeedsRelaunch(b) == ~isConnected(b)

\* page.goto is issued; the log keeps what the session was at that moment.
IssueGoto(isConn, isOpen) ==
  Append(navs, [unit |-> unit, connected |-> isConn, open |-> isOpen])

\* Head of an iteration.  It runs in the same tick as the end of the
\* previous delay (or of the initial setup); a connected browser passes the
\* check of scrapeLocation line 341 in that tick too and page.goto is issued.
LoopHead ==
  /\ pc = "loop"
  /\ started' = Append(started, unit)
  /\ IF NeedsRelaunch(browser)
       THEN pc' = "recoverPre" /\ navs' = navs
       ELSE pc' = "goto" /\ navs' = IssueGoto(isConnected(browser), ~isClosed(page))
  /\ NoFault
  /\ UNCHANGED <<inputVars, loopVars, handleVars, engineVars, err, exc,
                 totalVars, errors, outcome, delays, dispatched, extracted,
                 recVars>>

\* ------------------------------------------------------------ recovery
RecOutcomes == {"launchFail", "pageFail", "setupFail", "ok"}

\* The handles the loop holds after a recovery attempt that ended r, `new`
\* being the browser it launched.  recoverBrowser returns the pair only
\* when every step succeeded; server.js assigns each handle as it is made.
HandlesAfter(r, new) ==
  IF impl = "local"
    THEN IF r = "ok" THEN <<new, new>> ELSE <<browser, page>>
    ELSE CASE r = "launchFail" -> <<browser, page>>
           [] r = "pageFail" -> <<new, page>>
           [] OTHER -> <<new, new>>

\* One recovery attempt: close the old browser (errors swallowed), launch,
\* newPage, viewport and user agent.  from = "pre" is the relaunch of the
\* pre-unit health check, from = "catch" the one of the failure handler.
\* After a successful pre-unit relaunch page.goto is issued in the same tick.
Recover(from) ==
  /\ pc = (IF from = "pre" THEN "recoverPre" ELSE "recoverCatch")
  /\ \E closeOk \in BOOLEAN, r \in RecOutcomes, m \in Msgs :
       LET new == nLaunched + 1
           gone == IF closeOk THEN {browser} ELSE {}
       IN
       /\ r # "launchFail" => nLaunched < MaxBrowsers
       /\ (r = "launchFail" \/ r = "ok" \/ from = "catch") => m = "other"
       /\ IF closeOk /\ (r = "ok" \/ nLaunched = MaxBrowsers)
            THEN NoFault ELSE Fault
       /\ closedB' = closedB \cup gone
       /\ nLaunched' = IF r = "launchFail" THEN nLaunched ELSE new
       /\ connected' = (connected \ gone)
                         \cup (IF r = "launchFail" THEN {} ELSE {new})
       /\ pageOpen' = (pageOpen \ gone)
                         \cup (IF r \in {"setupFail", "ok"} THEN {new} ELSE {})
       /\ browser' = HandlesAfter(r, new)[1]
       /\ page' = HandlesAfter(r, new)[2]
       /\ recLog' = Append(recLog, [unit |-> unit, from |-> from,
                                    ok |-> (r = "ok")])
       /\ IF from = "catch"
            THEN pc' = "delay" /\ err' = NoErr /\ navs' = navs
            ELSE IF r = "ok"
                   THEN /\ pc' = "goto" /\ err' = NoErr
                        /\ navs' = IssueGoto(browser' \in connected',
                                             page' \in pageOpen')
                   ELSE /\ pc' = "catch" /\ navs' = navs
                        /\ err' = [msg |-> m, src |-> "recover"]
  /\ UNCHANGED <<inputVars, loopVars, exc, totalVars, errors, outcome,
                 started, delays, dispatched, extracted, crashed>>

RecoverPre == Recover("pre")
RecoverCatch == Recover("catch")

\* ------------------------------------------------ one unit's scrape
\* An awaited page operation failed: the exception goes to the unit's
\* catch block with a message of either class.
Throw(m) ==
  /\ pc' = "catch"
  /\ err' = [msg |-> m, src |-> "scrape"]

\* A failure on a usable page is a fault; on a dead session it is forced.
Failed == IF PageUsable(page) THEN Fault ELSE NoFault

scrapeFrame == <<inputVars, loopVars, handleVars, engineVars, exc, errors,
                 outcome, started, delays, navs, recVars>>

\* page.goto settles; on success the post-navigation delay starts.
Goto ==
  /\ pc = "goto"
  /\ \/ PageUsable(page) /\ pc' = "settle" /\ err' = err /\ NoFault
     \/ \E m \in Msgs : Throw(m) /\ Failed
  /\ UNCHANGED <<scrapeFrame, totalVars, dispatched, extracted>>

\* After the settle delay: page still open, browser still connected,
\* still on the listing path; then the overlay is dismissed (its absence
\* swallowed) and the wait for the results container starts.
Settle ==
  /\ pc = "settle"
  /\ IF isClosed(page) \/ ~isConnected(browser)
       THEN Throw("other") /\ NoFault
       ELSE \/ Throw("other") /\ Fault          \* redirected away
            \/ pc' = "waitList" /\ err' = err /\ NoFault
  /\ UNCHANGED <<scrapeFrame, totalVars, dispatched, extracted>>

\* waitForSelector on the results container settles; then the
\* stabilization delay runs and the cards are counted.
WaitList ==
  /\ pc = "waitList"
  /\ \/ PageUsable(page) /\ pc' = "count" /\ err' = err /\ NoFault
     \/ \E m \in Msgs : Throw(m) /\ Failed
  /\ UNCHANGED <<scrapeFrame, totalVars, dispatched, extracted>>

\* local: page.evaluate counts the cards, zero throws 'No job listings
\* found on page'.  server: a second waitForSelector whose failure, whatever
\* its cause, is turned into null, and null throws the same message.  Both
\* take a screenshot (local: and wait) before they throw, so the session may
\* be lost by the time the message is thrown.
Count ==
  /\ pc = "count"
  /\ \/ PageUsable(page) /\ pc' = "extract" /\ err' = err /\ NoFault
     \/ PageUsable(page) /\ Throw("noListings") /\ Fault     \* no cards
     \/ /\ ~PageUsable(page)                     \* session lost meanwhile
        /\ Throw("noListings") /\ NoFault
     \/ /\ impl = "local"                        \* evaluate failed
        /\ \E m \in Msgs : Throw(m) /\ Failed
  /\ UNCHANGED <<scrapeFrame, totalVars, dispatched, extracted>>

\* The records kept back for one dispatch at the end of the run.
DispatchBuffered(d, u, n) == d

\* The records of a unit are handed to sendBulkJobsToSupabase as they are,
\* and only when there are any.
Dispatch(d, u, n) == IF n > 0 THEN Append(d, [unit |-> u, jobs |-> n]) ELSE d

\* The total counts the units that returned, not their records.
AddScrapedCountsUnits(t, n) == t + 1

\* `totalScraped += result.jobs.length`
AddScraped(t, n) == t + n

\* An empty extraction handled as a failure.
AfterExtractThrowsOnEmpty(n) == IF n > 0 THEN "ingest" ELSE "catch"

\* `if (result.jobs.length > 0)`: only a non-empty batch is ingested.
AfterExtract(n) == IF n > 0 THEN "ingest" ELSE "delay"

\* extractJobs settles.  On success the unit's records are counted and, if
\* there are any, sent to ingestion at once.
Extract ==
  /\ pc = "extract"
  /\ \/ /\ PageUsable(page)
        /\ \E n \in 0..MaxJobs :
             /\ extracted' = Append(extracted, [unit |-> unit, jobs |-> n])
             /\ totalScraped' = AddScraped(totalScraped, n)
             /\ dispatched' = Dispatch(dispatched, unit, n)
             /\ pc' = AfterExtract(n)
        /\ NoFault
        /\ UNCHANGED <<err, totalInserted>>
     \/ /\ \E m \in Msgs : Throw(m)
        /\ Failed
        /\ UNCHANGED <<totalVars, dispatched, extracted>>
  /\ UNCHANGED scrapeFrame

\* `totalInserted += ingestResult?.inserted || 0`
AddInserted(t, ins) == t + ins

\* The ingestion call made for unit u returns with `inserted` = ins.
Received(rs, u, ins) ==
  IF audit THEN Append(rs, [unit |-> u, inserted |-> ins]) ELSE rs

\* The ingestion call without a try/catch of its own: a failure travels to
\* the unit's catch block like a failed page operation.
IngestUnguarded ==
  /\ pc = "ingest"
  /\ \/ /\ ~envSet
        /\ totalInserted' = AddInserted(totalInserted, 0)
        /\ NoFault
        /\ pc' = "delay" /\ err' = err
     \/ /\ envSet
        /\ \E ins \in 0..MaxInserted :
             totalInserted' = AddInserted(totalInserted, ins)
        /\ NoFault
        /\ pc' = "delay" /\ err' = err
     \/ /\ envSet
        /\ Fault
        /\ pc' = "catch" /\ err' = [msg |-> "other", src |-> "scrape"]
        /\ totalInserted' = totalInserted
  /\ UNCHANGED <<inputVars, loopVars, handleVars, engineVars, exc, errors,
                 totalScraped, outcome, logVars, recVars>>

\* The ingestion failure is recorded and thrown on to the unit's catch
\* block.
IngestRethrows ==
  /\ pc = "ingest"
  /\ \/ /\ ~envSet
        /\ totalInserted' = AddInserted(totalInserted, 0)
        /\ NoFault
        /\ pc' = "delay" /\ UNCHANGED <<err, errors>>
     \/ /\ envSet
        /\ \E ins \in 0..MaxInserted :
             totalInserted' = AddInserted(totalInserted, ins)
        /\ NoFault
        /\ pc' = "delay" /\ UNCHANGED <<err, errors>>
     \/ /\ envSet
        /\ Fault
        /\ errors' = Append(errors, [unit |-> unit, type |-> "ingest"])
        /\ pc' = "catch" /\ err' = [msg |-> "other", src |-> "scrape"]
        /\ totalInserted' = totalInserted
  /\ UNCHANGED <<inputVars, loopVars, handleVars, engineVars, exc,
                 totalScraped, outcome, logVars, recVars>>

\* sendBulkJobsToSupabase settles: the local script answers inserted 0
\* without a request when the environment is not set; otherwise the request
\* fails (one `ingest` error entry) or the response's `inserted` is added.
Ingest ==
  /\ pc = "ingest"
  /\ \/ /\ ~envSet
        /\ totalInserted' = AddInserted(totalInserted, 0)
        /\ responses' = Received(responses, unit, 0)
        /\ NoFault
        /\ errors' = errors
     \/ /\ envSet
        /\ \E ins \in 0..MaxInserted :
             /\ totalInserted' = AddInserted(totalInserted, ins)
             /\ responses' = Received(responses, unit, ins)
        /\ errors' = errors
        /\ NoFault
     \/ /\ envSet
        /\ errors' = Append(errors, [unit |-> unit, type |-> "ingest"])
        /\ Fault
        /\ UNCHANGED <<totalInserted, responses>>
  /\ pc' = "delay"
  /\ UNCHANGED <<requestVars, guardVars, auxVars, loopVars, handleVars,
                 engineVars, err, exc, totalScraped, outcome, logVars,
                 recVars>>

\* -------------------------------------------------- failure handling
\* Recovery triggered by the message alone, the sampled state ignored.
RecoverOnMessageOnly(browserState, msg) == msg = "targetClosed"

\* Every failure is taken for a crash.
RecoverOnAnyFailure(browserState, msg) == TRUE

\* The empty outcome is exempt from recovery.
RecoverUnlessEmpty(browserState, msg) ==
  msg # "noListings" /\ (browserState = "disconnected" \/ msg = "targetClosed")

\* `scrapeError.browserState === 'disconnected' ||
\*  /Target closed|detached Frame/i.test(errorMessage)`
RecoverNeeded(browserState, msg) ==
  browserState = "disconnected" \/ msg = "targetClosed"

\* The browser state the failure handler sees.  scrapeLocation samples it in
\* its own catch and attaches it to what it throws; an exception thrown by
\* recoverBrowser in the pre-unit check carries none.  The server handler
\* samples it itself, whatever failed.
SampledState ==
  IF impl = "local" /\ err.src = "recover" THEN "undefined"
  ELSE IF isConnected(browser) THEN "connected" ELSE "disconnected"

\* The unit's catch block: one error entry, then recovery if called for.
Catch ==
  /\ pc = "catch"
  /\ errors' = Append(errors, [unit |-> unit, type |-> "scrape"])
  /\ pc' = IF RecoverNeeded(SampledState, err.msg) THEN "recoverCatch"
                                                   ELSE "delay"
  /\ crashed' = IF err.src = "scrape" /\ SampledState = "disconnected"
                  THEN crashed \cup {unit} ELSE crashed
  /\ err' = NoErr
  /\ NoFault
  /\ UNCHANGED <<inputVars, loopVars, handleVars, engineVars, exc, totalVars,
                 outcome, logVars, recLog>>

\* ------------------------------------------------------ rate limiter
\* The delay as the last statement of the try block: a unit that threw
\* skips it.
ThrottleInsideTry(d, u) ==
  IF \E i \in 1..Len(errors) : errors[i].unit = u /\ errors[i].type = "scrape"
    THEN d ELSE Append(d, u)

\* The delay after the unit's try/catch.
Throttle(d, u) == Append(d, u)

\* The inter-unit delay elapses; the loops advance.  After the last unit
\* the server handler sends the summary (res.json) before its finally.
Delay ==
  /\ pc = "delay"
  /\ delays' = Throttle(delays, unit)
  /\ NoFault
  /\ IF NextPos(ki, li) = <<0, 0>>
       THEN /\ pc' = "finally"
            /\ UNCHANGED loopVars
            /\ outcome' = IF impl = "server" THEN "summary" ELSE outcome
       ELSE /\ pc' = "loop"
            /\ ki' = NextPos(ki, li)[1]
            /\ li' = NextPos(ki, li)[2]
            /\ outcome' = outcome
  /\ UNCHANGED <<inputVars, handleVars, engineVars, err, exc, totalVars,
                 errors, started, dispatched, navs, extracted, recVars>>

\* ------------------------------------------------------- end of run
\* `finally { if (browser) await browser.close(); }`: a rejected close
\* leaves the finally block as an exception.  runBulkScrape returns the
\* summary after the finally block.
Finally ==
  /\ pc = "finally"
  /\ browser # 0
  /\ \/ /\ closedB' = closedB \cup {browser}
        /\ connected' = connected \ {browser}
        /\ pageOpen' = pageOpen \ {browser}
        /\ pc' = IF impl = "local" /\ exc THEN "rejected" ELSE "done"
        /\ outcome' = IF impl = "local" /\ ~exc THEN "summary" ELSE outcome
        /\ NoFault
     \/ /\ UNCHANGED <<closedB, connected, pageOpen>>
        /\ pc' = "rejected"
        /\ outcome' = outcome
        /\ NoFault
  /\ UNCHANGED <<inputVars, loopVars, handleVars, nLaunched, err, exc,
                 totalVars, errors, logVars, recVars>>

\* ------------------------------------------------------- environment
AwaitPoints == {"goto", "settle", "waitList", "count", "extract", "ingest",
                "delay"}

\* The browser in use crashes or loses its connection while the run awaits.
Crash ==
  /\ pc \in AwaitPoints
  /\ isConnected(browser)
  /\ Fault
  /\ connected' = connected \ {browser}
  /\ pageOpen' \in {pageOpen, pageOpen \ {browser}}
  /\ UNCHANGED <<inputVars, pc, loopVars, handleVars, nLaunched, closedB, err,
                 exc, totalVars, errors, outcome, logVars, recVars>>

\* The page in use is closed (by the site or the engine) while the run awaits.
PageClose ==
  /\ pc \in AwaitPoints
  /\ page \in pageOpen
  /\ page \in connected
  /\ Fault
  /\ pageOpen' = pageOpen \ {page}
  /\ UNCHANGED <<inputVars, pc, loopVars, handleVars, nLaunched, connected,
                 closedB, err, exc, totalVars, errors, outcome, logVars,
                 recVars>>

Next ==
  \/ Validate \/ LaunchInitial \/ LoopHead \/ RecoverPre \/ Goto \/ Settle
  \/ WaitList \/ Count \/ Extract \/ Ingest \/ Catch \/ RecoverCatch
  \/ Delay \/ Finally \/ Crash \/ PageClose

Spec == Init /\ [][Next]_vars

\* The steps of the program, as opposed to those of its environment.
\* page.goto, waitForSelector, launch and screenshot take a timeout and the
\* delays are timers; the evaluations, browser.close and the ingestion
\* request are taken to settle as well.  So a step that is due is
\* eventually taken.
Progress ==
  \/ Validate \/ LaunchInitial \/ LoopHead \/ RecoverPre \/ Goto \/ Settle
  \/ WaitList \/ Count \/ Extract \/ Ingest \/ Catch \/ RecoverCatch
  \/ Delay \/ Finally

SpecLive == Init /\ [][Next]_vars /\ WF_vars(Progress)

\* =================================================================
\* Input as supplied, normalization and validation
\* =================================================================
MaxRawLen == 2        \* longest keyword array / location object supplied

\* A keyword as supplied is a non-empty string or the empty string; a
\* location id converts to a finite number or does not.
KeywordValues == {"kw", ""}
GeoIdValues == {"num", "nan"}

RawSeqs(S) == UNION {[1..n -> S] : n \in 0..MaxRawLen}

\* The positions of a sequence, in order.
Positions(raw) == [i \in 1..Len(raw) |-> i]

\* normalizeKeywords on an array: `config.filter(Boolean)`.  The result
\* names the kept keywords by their positions in the input.
normalizeKeywords(raw) ==
  LET kept(i) == raw[i] # "" IN SelectSeq(Positions(raw), kept)

\* normalizeLocations on an object throws when there is no entry or when
\* Number(geoId) is not finite for some entry.
normalizeLocationsThrows(raw) ==
  Len(raw) = 0 \/ \E i \in 1..Len(raw) : raw[i] = "nan"

\* The run starts from the arguments as supplied.
InitInput ==
  /\ impl \in {"local", "server"}
  /\ envSet \in BOOLEAN
  /\ (impl = "server" => envSet)
  /\ rawKeywords \in RawSeqs(KeywordValues)
  /\ rawLocations \in RawSeqs(GeoIdValues)
  /\ keywordList = <<>> /\ locationMap = <<>>
  /\ pc = "input"
  /\ ki = 1 /\ li = 1
  /\ browser = 0 /\ page = 0
  /\ nLaunched = 0 /\ connected = {} /\ closedB = {} /\ pageOpen = {}
  /\ err = NoErr /\ exc = FALSE
  /\ totalScraped = 0 /\ totalInserted = 0 /\ errors = <<>>
  /\ outcome = "none"
  /\ started = <<>> /\ delays = <<>> /\ dispatched = <<>>
  /\ navs = <<>> /\ extracted = <<>> /\ recLog = <<>> /\ crashed = {}
  /\ faults = 0
  /\ memStops = <<>>
  /\ handlers = <<>>
  /\ audit = FALSE /\ responses = <<>>
  /\ jobUrl = <<>> /\ urlOut = <<>>
  /\ UnitIdle

\* runBulkScrape normalizes both arguments and rejects empty results before
\* it launches anything; the /bulk-scrape handler only tests that the
\* keyword array and the location object have at least one entry.
ValidateInput ==
  /\ pc = "input"
  /\ IF impl = "local"
       THEN IF \/ normalizeLocationsThrows(rawLocations)
               \/ normalizeKeywords(rawKeywords) = <<>>
              THEN /\ pc' = "rejected" /\ outcome' = outcome
                   /\ UNCHANGED <<keywordList, locationMap>>
              ELSE /\ pc' = "launch" /\ outcome' = outcome
                   /\ keywordList' = normalizeKeywords(rawKeywords)
                   /\ locationMap' = Positions(rawLocations)
       ELSE IF Len(rawKeywords) = 0 \/ Len(rawLocations) = 0
              THEN /\ pc' = "done" /\ outcome' = "error"
                   /\ UNCHANGED <<keywordList, locationMap>>
              ELSE /\ pc' = "launch" /\ outcome' = outcome
                   /\ keywordList' = Positions(rawKeywords)
                   /\ locationMap' = Positions(rawLocations)
  /\ NoFault
  /\ UNCHANGED <<impl, envSet, rawVars, guardVars, auxVars, respVars, loopVars,
                 handleVars, engineVars, err, exc, totalVars, errors, logVars,
                 recVars>>

NextInput == ValidateInput \/ LaunchInitial

SpecInput == InitInput /\ [][NextInput]_vars

\* =================================================================
\* The memory-guarded /bulk-scrape handler (src/unnamed/part_000)
\* =================================================================
\* One browser and one page serve the whole request; there is no recovery.
\* Before each unit the heap size is sampled and compared with a ceiling.
MemoryCeiling == 450          \* MB
ErrorCap == 50                \* entries kept after an ingestion failure

\* Heap sizes on both sides of the ceiling.
MemSamples == {MemoryCeiling, MemoryCeiling + 1}

InitGuarded ==
  /\ impl = "guarded"
  /\ envSet = TRUE
  /\ keywordList \in {[i \in 1..n |-> i] : n \in 0..NumKeywords}
  /\ locationMap \in {[i \in 1..n |-> i] : n \in 0..NumLocations}
  /\ Len(keywordList) * Len(locationMap) <= MaxUnits
  /\ pc = "gStart"
  /\ ki = 1 /\ li = 1
  /\ browser = 0 /\ page = 0
  /\ nLaunched = 0 /\ connected = {} /\ closedB = {} /\ pageOpen = {}
  /\ err = NoErr /\ exc = FALSE
  /\ totalScraped = 0 /\ totalInserted = 0 /\ errors = <<>>
  /\ outcome = "none"
  /\ started = <<>> /\ delays = <<>> /\ dispatched = <<>>
  /\ navs = <<>> /\ extracted = <<>> /\ recLog = <<>> /\ crashed = {}
  /\ faults = 0
  /\ rawKeywords = <<>> /\ rawLocations = <<>>
  /\ memStops = <<>>
  /\ handlers = <<>>
  /\ audit = FALSE /\ responses = <<>>
  /\ jobUrl = <<>> /\ urlOut = <<>>
  /\ UnitIdle

\* What no step of this handler touches.
guardedFrame == <<requestVars, auxVars, respVars, err, recVars>>

\* Lines 109-119: both parameters must be present and non-empty.
GValidate ==
  /\ pc = "gStart"
  /\ IF Len(keywordList) = 0 \/ Len(locationMap) = 0
       THEN pc' = "done" /\ outcome' = "error"
       ELSE pc' = "gLaunch" /\ outcome' = outcome
  /\ NoFault
  /\ UNCHANGED <<guardedFrame, guardVars, loopVars, handleVars, engineVars,
                 exc, totalVars, errors, logVars>>

\* Lines 143-178.  A failure goes to the outer catch, which answers 500
\* when the message mentions the launch; for any other message it
\* evaluates the undeclared name `locationIds`, so the catch block itself
\* throws and no response is sent.
GLaunch ==
  /\ pc = "gLaunch"
  /\ \E r \in {"launchFail", "pageFail", "setupFail", "ok"} :
       /\ r # "launchFail" => nLaunched < MaxBrowsers
       /\ NoFault
       /\ IF r = "launchFail"
            THEN /\ UNCHANGED <<handleVars, engineVars>>
                 /\ exc' = TRUE
                 /\ outcome' = "error"
                 /\ pc' = "done"
            ELSE /\ nLaunched' = nLaunched + 1
                 /\ connected' = connected \cup {nLaunched + 1}
                 /\ browser' = nLaunched + 1
                 /\ closedB' = closedB
                 /\ IF r = "pageFail"
                      THEN page' = page /\ pageOpen' = pageOpen
                      ELSE /\ page' = nLaunched + 1
                           /\ pageOpen' = pageOpen \cup {nLaunched + 1}
                 /\ exc' = (r # "ok")
                 /\ pc' = IF r = "ok" THEN "gLoop" ELSE "gFinally"
                 /\ outcome' = outcome
  /\ UNCHANGED <<guardedFrame, guardVars, loopVars, totalVars, errors,
                 logVars>>

\* `break` (line 187) leaves the loop over the locations; the loop over the
\* keywords goes on with its next keyword.
AfterBreak(k) ==
  IF k < Len(keywordList) THEN <<k + 1, 1>> ELSE <<0, 0>>

\* Head of an iteration, lines 183-199: the memory sample, then page.goto.
GLoopHead ==
  /\ pc = "gLoop"
  /\ \E currentMem \in MemSamples :
       IF currentMem > MemoryCeiling
         THEN /\ memStops' = Append(memStops, Len(started))
              /\ IF AfterBreak(ki) = <<0, 0>>
                   THEN pc' = "gRespond" /\ UNCHANGED loopVars
                   ELSE /\ pc' = "gLoop"
                        /\ ki' = AfterBreak(ki)[1]
                        /\ li' = AfterBreak(ki)[2]
              /\ UNCHANGED <<started, navs>>
         ELSE /\ started' = Append(started, unit)
              /\ navs' = IssueGoto(isConnected(browser), ~isClosed(page))
              /\ pc' = "gGoto"
              /\ UNCHANGED <<memStops, loopVars>>
  /\ NoFault
  /\ UNCHANGED <<guardedFrame, handleVars, engineVars, exc, totalVars,
                 errors, outcome, delays, dispatched, extracted>>

\* The next iteration, or the response when the matrix is exhausted.
GAdvance ==
  IF NextPos(ki, li) = <<0, 0>>
    THEN pc' = "gRespond" /\ UNCHANGED loopVars
    ELSE /\ pc' = "gLoop"
         /\ ki' = NextPos(ki, li)[1]
         /\ li' = NextPos(ki, li)[2]

\* The unit's catch block, lines 334-341: one entry, then the next
\* iteration at once.
GFailUnit ==
  /\ errors' = Append(errors, [unit |-> unit, type |-> "scrape"])
  /\ GAdvance

\* page.goto settles.
GGoto ==
  /\ pc = "gGoto"
  /\ \/ PageUsable(page) /\ pc' = "gPopup" /\ NoFault
        /\ UNCHANGED <<loopVars, errors>>
     \/ GFailUnit /\ Failed
  /\ UNCHANGED <<guardedFrame, guardVars, handleVars, engineVars, exc,
                 totalVars, outcome, logVars>>

\* Lines 202-210: the sign-in popup is dismissed; any failure is swallowed.
GPopup ==
  /\ pc = "gPopup"
  /\ pc' = "gEvaluate"
  /\ NoFault
  /\ UNCHANGED <<guardedFrame, guardVars, loopVars, handleVars, engineVars,
                 exc, totalVars, errors, outcome, logVars>>

\* Lines 213-306: page.evaluate returns the records; the totals follow.
GEvaluate ==
  /\ pc = "gEvaluate"
  /\ \/ /\ PageUsable(page)
        /\ \E n \in 0..MaxJobs :
             /\ extracted' = Append(extracted, [unit |-> unit, jobs |-> n])
             /\ totalScraped' = AddScraped(totalScraped, n)
             /\ dispatched' = Dispatch(dispatched, unit, n)
             /\ pc' = IF n > 0 THEN "gIngest" ELSE "gDelay"
        /\ NoFault
        /\ UNCHANGED <<loopVars, errors>>
     \/ /\ GFailUnit
        /\ Failed
        /\ UNCHANGED <<totalScraped, dispatched, extracted>>
  /\ UNCHANGED <<guardedFrame, guardVars, handleVars, engineVars, exc,
                 totalInserted, outcome, started, delays, navs>>

\* Lines 321-330: the entry is appended and the oldest one dropped when
\* the list has grown beyond the cap.
PushCapped(es, e) ==
  IF Len(es) + 1 > ErrorCap THEN Tail(Append(es, e)) ELSE Append(es, e)

\* Lines 309-331.
GIngest ==
  /\ pc = "gIngest"
  /\ \/ /\ \E ins \in 0..MaxInserted :
             totalInserted' = AddInserted(totalInserted, ins)
        /\ errors' = errors
        /\ NoFault
     \/ /\ errors' = PushCapped(errors, [unit |-> unit, type |-> "ingest"])
        /\ Fault
        /\ totalInserted' = totalInserted
  /\ pc' = "gDelay"
  /\ UNCHANGED <<guardedFrame, guardVars, loopVars, handleVars, engineVars,
                 exc, totalScraped, outcome, logVars>>

\* Line 332, the last statement of the try block.
GDelay ==
  /\ pc = "gDelay"
  /\ delays' = Append(delays, unit)
  /\ GAdvance
  /\ NoFault
  /\ UNCHANGED <<guardedFrame, guardVars, handleVars, engineVars, exc,
                 totalVars, errors, outcome, started, dispatched, navs,
                 extracted>>

\* Lines 356-361: the summary is sent.
GRespond ==
  /\ pc = "gRespond"
  /\ outcome' = "summary"
  /\ pc' = "gFinally"
  /\ NoFault
  /\ UNCHANGED <<guardedFrame, guardVars, loopVars, handleVars, engineVars,
                 exc, totalVars, errors, logVars>>

\* Lines 382-387.
GFinally ==
  /\ pc = "gFinally"
  /\ \/ /\ closedB' = closedB \cup {browser}
        /\ connected' = connected \ {browser}
        /\ pageOpen' = pageOpen \ {browser}
        /\ pc' = "done"
     \/ /\ UNCHANGED <<closedB, connected, pageOpen>>
        /\ pc' = "rejected"
  /\ NoFault
  /\ UNCHANGED <<guardedFrame, guardVars, loopVars, handleVars, nLaunched,
                 exc, totalVars, errors, outcome, logVars>>

GAwaitPoints == {"gGoto", "gPopup", "gEvaluate", "gIngest", "gDelay"}

\* The browser crashes or loses its connection while the handler awaits.
GCrash ==
  /\ pc \in GAwaitPoints
  /\ isConnected(browser)
  /\ Fault
  /\ connected' = connected \ {browser}
  /\ pageOpen' \in {pageOpen, pageOpen \ {browser}}
  /\ UNCHANGED <<guardedFrame, guardVars, pc, loopVars, handleVars,
                 nLaunched, closedB, exc, totalVars, errors, outcome,
                 logVars>>

NextGuarded ==
  \/ GValidate \/ GLaunch \/ GLoopHead \/ GGoto \/ GPopup \/ GEvaluate
  \/ GIngest \/ GDelay \/ GRespond \/ GFinally \/ GCrash

SpecGuarded == InitGuarded /\ [][NextGuarded]_vars

\* =================================================================
\* Several /bulk-scrape requests in one server process
\* =================================================================
\* Express calls the handler once per request.  A handler runs until its
\* next await and then yields to the event loop, which may run another
\* handler.  `browser`, `page`, the totals and the errors are locals of
\* the handler (server.js lines 167-171, part_000 lines 126-129), so each
\* request has its own; the handlers share nothing and take no lock.
\* A handler is followed here through its awaits; a failing step of a
\* unit goes to the unit's end like a successful one.
NumRequests == 2      \* requests received by the process
MaxReqUnits == 2      \* largest unit matrix of one request

Requests == 1..NumRequests

\* The awaits of one unit, in order.
UnitPoints == <<"goto", "settle", "waitList", "extract", "ingest", "delay">>

InitRequests ==
  /\ impl = "server"
  /\ envSet = TRUE
  /\ handlers \in [Requests ->
                     {[pc |-> "arrive", browser |-> 0, left |-> n] :
                        n \in 1..MaxReqUnits}]
  /\ keywordList = <<>> /\ locationMap = <<>>
  /\ pc = "serving"
  /\ ki = 1 /\ li = 1
  /\ browser = 0 /\ page = 0
  /\ nLaunched = 0 /\ connected = {} /\ closedB = {} /\ pageOpen = {}
  /\ err = NoErr /\ exc = FALSE
  /\ totalScraped = 0 /\ totalInserted = 0 /\ errors = <<>>
  /\ outcome = "none"
  /\ started = <<>> /\ delays = <<>> /\ dispatched = <<>>
  /\ navs = <<>> /\ extracted = <<>> /\ recLog = <<>> /\ crashed = {}
  /\ faults = 0
  /\ rawKeywords = <<>> /\ rawLocations = <<>>
  /\ memStops = <<>>
  /\ audit = FALSE /\ responses = <<>>
  /\ jobUrl = <<>> /\ urlOut = <<>>
  /\ UnitIdle

\* What the handlers of this section leave alone.
requestsFrame == <<requestVars, guardVars, audit, urlVars, unitVars,
                   respVars, pc, loopVars, handleVars, pageOpen, err, exc,
                   totalVars, errors, outcome, logVars, recVars, faults>>

\* The request is received: validation passes and puppeteer.launch is
\* called, with no test of what other handlers are doing.
HArrive(r) ==
  /\ handlers[r].pc = "arrive"
  /\ handlers' = [handlers EXCEPT ![r].pc = "launch"]
  /\ UNCHANGED <<requestsFrame, nLaunched, connected, closedB>>

\* The launch and the page setup settle; the first page.goto is issued.
HLaunch(r) ==
  /\ handlers[r].pc = "launch"
  /\ \/ /\ nLaunched' = nLaunched + 1
        /\ connected' = connected \cup {nLaunched + 1}
        /\ handlers' = [handlers EXCEPT ![r].pc = "goto",
                                        ![r].browser = nLaunched + 1]
     \/ /\ handlers' = [handlers EXCEPT ![r].pc = "done"]
        /\ UNCHANGED <<nLaunched, connected>>
  /\ UNCHANGED <<requestsFrame, closedB>>

\* One await of a unit settles: the next one starts, or the unit fails or
\* has nothing to send and goes to its delay.
HStep(r) ==
  /\ \E i \in 1..(Len(UnitPoints) - 1) :
       /\ handlers[r].pc = UnitPoints[i]
       /\ \E j \in {i + 1, Len(UnitPoints)} :
            handlers' = [handlers EXCEPT ![r].pc = UnitPoints[j]]
  /\ UNCHANGED <<requestsFrame, nLaunched, connected, closedB>>

\* The delay ends: the next unit's page.goto is issued, or the summary is
\* sent and browser.close() is called.
HDelay(r) ==
  /\ handlers[r].pc = "delay"
  /\ handlers' = [handlers EXCEPT
                    ![r].left = @ - 1,
                    ![r].pc = IF handlers[r].left > 1 THEN "goto"
                                                       ELSE "finally"]
  /\ UNCHANGED <<requestsFrame, nLaunched, connected, closedB>>

\* browser.close() settles.
HFinally(r) ==
  /\ handlers[r].pc = "finally"
  /\ handlers' = [handlers EXCEPT ![r].pc = "done"]
  /\ closedB' = closedB \cup {handlers[r].browser}
  /\ connected' = connected \ {handlers[r].browser}
  /\ UNCHANGED <<requestsFrame, nLaunched>>

NextRequests ==
  \E r \in Requests :
    HArrive(r) \/ HLaunch(r) \/ HStep(r) \/ HDelay(r) \/ HFinally(r)

SpecRequests == InitRequests /\ [][NextRequests]_vars

\* =================================================================
\* Runs with the ingestion responses recorded
\* =================================================================
\* The same runs as Spec over a single keyword, with every `inserted`
\* value that comes back from the ingestion service kept in `responses`.
InitTotals ==
  /\ impl \in {"local", "server"}
  /\ envSet \in BOOLEAN
  /\ (impl = "server" => envSet)
  /\ keywordList \in {[i \in 1..n |-> i] : n \in 0..1}
  /\ locationMap \in {[i \in 1..n |-> i] : n \in 0..NumLocations}
  /\ pc = "start"
  /\ ki = 1 /\ li = 1
  /\ browser = 0 /\ page = 0
  /\ nLaunched = 0 /\ connected = {} /\ closedB = {} /\ pageOpen = {}
  /\ err = NoErr /\ exc = FALSE
  /\ totalScraped = 0 /\ totalInserted = 0 /\ errors = <<>>
  /\ outcome = "none"
  /\ started = <<>> /\ delays = <<>> /\ dispatched = <<>>
  /\ navs = <<>> /\ extracted = <<>> /\ recLog = <<>> /\ crashed = {}
  /\ faults = 0
  /\ rawKeywords = <<>> /\ rawLocations = <<>>
  /\ memStops = <<>>
  /\ handlers = <<>>
  /\ audit = TRUE /\ responses = <<>>
  /\ jobUrl = <<>> /\ urlOut = <<>>
  /\ UnitIdle

SpecTotals == InitTotals /\ [][Next]_vars

\* =================================================================
\* transformJobUrl
\* =================================================================
\* A string is a sequence of pieces; each piece stands for the text it
\* spells.  "1234567890" is a run of ten digits and "1" a single digit, so
\* adjacent digit pieces form one longer run.  An origin piece occurs only
\* at the start of an input; the pieces that follow it up to the first
\* slash or question mark extend the host name.
MaxUrlLen == 5        \* longest input, in pieces

UrlOrigins == {"https://h", "http://h", "app://h"}
BodyPieces == {"/jobs/view/", "/x", "a", "-", "1234567890", "1", "?"}

BodySeqs == UNION {[1..n -> BodyPieces] : n \in 0..(MaxUrlLen - 1)}
UrlInputs ==
  {<<>>} \cup {<<h>> \o t : h \in UrlOrigins \cup BodyPieces, t \in BodySeqs}

\* Number of digits a piece spells.
Digits(piece) ==
  IF piece = "1234567890" THEN 10 ELSE IF piece = "1" THEN 1 ELSE 0

\* The least position from `from` on that holds a piece of S, or Len + 1.
RECURSIVE FirstIn(_, _, _)
FirstIn(str, S, from) ==
  IF from > Len(str) THEN Len(str) + 1
  ELSE IF str[from] \in S THEN from
  ELSE FirstIn(str, S, from + 1)

\* The last position of the digit run that starts at position k (k - 1
\* when no digit stands there).
RunEnd(str, k) == FirstIn(str, BodyPieces \ {"1234567890", "1"}, k) - 1

RECURSIVE RunLength(_, _, _)
RunLength(str, k, e) ==
  IF k > e THEN 0 ELSE Digits(str[k]) + RunLength(str, k + 1, e)

\* \d{1,12}: any run of up to twelve digits is taken for an id.
IdLengthAny(n) == n \in 1..12

\* \d{10,12}
IdLength(n) == n \in 10..12

\* `new URL(jobUrl)` succeeds: the string has a scheme.  None of the body
\* pieces holds a colon.
Parses(str) == str # <<>> /\ str[1] \in UrlOrigins

\* Where the authority ends: the first slash or question mark.
AuthorityEnd(str) == FirstIn(str, {"/jobs/view/", "/x", "?"}, 2)

\* u.origin: scheme and host for http(s), the text "null" for a scheme
\* that is not special.
origin(str) ==
  IF str[1] = "app://h" THEN <<"null">>
  ELSE SubSeq(str, 1, AuthorityEnd(str) - 1)

\* u.pathname: from the end of the authority to the query (an empty path
\* reads "/" and holds no piece).
pathname(str) ==
  SubSeq(str, AuthorityEnd(str), FirstIn(str, {"?"}, 2) - 1)

\* Positions j of a hyphen that /\/jobs\/view\/.*-(\d{10,12})(?:[?#]|$)/
\* can match in str: "/jobs/view/" stands somewhere before j, the digit
\* run after j has an id's length and is followed by `?` or by the end.
IdHyphens(str) ==
  {j \in 1..Len(str) :
     /\ str[j] = "-"
     /\ \E i \in 1..(j - 1) : str[i] = "/jobs/view/"
     /\ IdLength(RunLength(str, j + 1, RunEnd(str, j + 1)))
     /\ RunEnd(str, j + 1) = Len(str) \/ str[RunEnd(str, j + 1) + 1] = "?"}

\* Group 1 of the match: `.*` is greedy, so the last such hyphen wins.
IdGroup(str) ==
  LET j == CHOOSE h \in IdHyphens(str) : \A g \in IdHyphens(str) : g <= h
  IN  SubSeq(str, j + 1, RunEnd(str, j + 1))

\* /^(https:\/\/[^\/]+)\/jobs\/view\// matches the raw string.
RootMatches(str) ==
  /\ str[1] = "https://h"
  /\ FirstIn(str, {"/jobs/view/", "/x"}, 2) <= Len(str)
  /\ str[FirstIn(str, {"/jobs/view/", "/x"}, 2)] = "/jobs/view/"

RootGroup(str) == SubSeq(str, 1, FirstIn(str, {"/jobs/view/", "/x"}, 2) - 1)

\* The canonical form keeps the hyphen and appends a digit to the id.
CanonicalHyphenCheckDigit(root, id) ==
  root \o <<"/jobs/view/", "-">> \o id \o <<"1">>

\* The canonical form keeps a slug and the hyphen before the id.
CanonicalKeepsSlug(root, id) == root \o <<"/jobs/view/", "a", "-">> \o id

\* `${root}/jobs/view/${id}`
Canonical(root, id) == root \o <<"/jobs/view/">> \o id

\* Lines 138-155.  An empty input gives ''; when `new URL` throws, the
\* catch block returns the input.
transformJobUrl(str) ==
  IF str = <<>> THEN <<>>
  ELSE IF ~Parses(str) THEN str
  ELSE IF IdHyphens(pathname(str)) # {}
         THEN Canonical(origin(str), IdGroup(pathname(str)))
  ELSE IF RootMatches(str) /\ IdHyphens(str) # {}
         THEN Canonical(RootGroup(str), IdGroup(str))
  ELSE str

InitUrl ==
  /\ UnitIdle
  /\ jobUrl \in UrlInputs
  /\ urlOut = <<>>
  /\ impl = "local"
  /\ envSet = TRUE
  /\ keywordList = <<>> /\ locationMap = <<>>
  /\ pc = "url"
  /\ ki = 1 /\ li = 1
  /\ browser = 0 /\ page = 0
  /\ nLaunched = 0 /\ connected = {} /\ closedB = {} /\ pageOpen = {}
  /\ err = NoErr /\ exc = FALSE
  /\ totalScraped = 0 /\ totalInserted = 0 /\ errors = <<>>
  /\ outcome = "none"
  /\ started = <<>> /\ delays = <<>> /\ dispatched = <<>>
  /\ navs = <<>> /\ extracted = <<>> /\ recLog = <<>> /\ crashed = {}
  /\ faults = 0
  /\ rawKeywords = <<>> /\ rawLocations = <<>>
  /\ memStops = <<>>
  /\ handlers = <<>>
  /\ audit = FALSE /\ responses = <<>>

\* `job.url = transformJobUrl(job.url)`, and the same once more on the
\* result.
ApplyTransform ==
  /\ pc = "url"
  /\ Len(urlOut) < 2
  /\ urlOut' = Append(urlOut, transformJobUrl(IF urlOut = <<>>
                                                THEN jobUrl
                                                ELSE urlOut[Len(urlOut)]))
  /\ UNCHANGED <<requestVars, guardVars, handlers, audit, jobUrl, unitVars,
                 respVars, pc, loopVars, handleVars, engineVars, err, exc,
                 totalVars, errors, outcome, logVars, recVars, faults>>

NextUrl == ApplyTransform

SpecUrl == InitUrl /\ [][NextUrl]_vars

\* =================================================================
\* One unit, operation by operation
\* =================================================================
\* scrapeLocation (src/local-bulk-scrape.js 330-463) with the part of
\* runBulkScrape that consumes its result (520-545), and the body of one
\* iteration of the /bulk-scrape handler (src/server.js 208-470).  The
\* unit runs on browser 1 and its page; `trail` lists the operations that
\* have settled, each with its result.
MaxCards == 2         \* most result cards on the page
MaxClock == 2         \* latest reading of the clock

\* What a result card offers to the selectors: the text of its title
\* element ("none": no such element), the href of its link, and whether
\* reading it throws.
CardKinds ==
  [title : {"none", " ", "Dev"},
   href : {"none", "/jobs/search", "/jobs/view/7"},
   throws : {FALSE}]
  \cup {[title |-> "Dev", href |-> "/jobs/view/7", throws |-> TRUE]}

CardSeqs == UNION {[1..n -> CardKinds] : n \in 0..MaxCards}

\* `titleElement ? titleElement.innerText.trim() : ''`
jobTitle(c) == IF c.title \in {"none", " "} THEN "" ELSE c.title

\* The digits captured by /\/jobs\/view\/.*?(\d+)/ in the link's path.
jobId(c) == IF c.href = "/jobs/view/7" THEN "7" ELSE ""

\* A record is pushed for every card that has an id.
PushedWithoutTitle(c) == ~c.throws /\ jobId(c) # ""

\* `if (jobTitle && jobId) jobListings.push(...)` inside the card's
\* try/catch: a card whose processing throws pushes nothing.
Pushed(c) == ~c.throws /\ jobTitle(c) # "" /\ jobId(c) # ""

\* extractJobs: the records of the cards, in document order.
extractJobs(cs) ==
  LET listed[i \in 0..Len(cs)] ==
        IF i = 0 THEN <<>>
        ELSE IF Pushed(cs[i])
               THEN Append(listed[i - 1],
                           [card |-> i, job_id |-> jobId(cs[i]),
                            job_title |-> jobTitle(cs[i])])
               ELSE listed[i - 1]
  IN  listed[Len(cs)]

\* The readings of the clock taken by n consecutive `new Date()`.
ClockReadings(n) ==
  {ts \in [1..n -> clock..MaxClock] :
     \A i \in 1..n : \A j \in i..n : ts[i] <= ts[j]}

\* `jobs.map(job => ({...job, scrape_metadata: {..., scraped_at:
\* new Date().toISOString()}}))`: the callback reads the clock for every
\* record.
Stamp(js, ts) ==
  [i \in 1..Len(js) |->
     [card |-> js[i].card, job_id |-> js[i].job_id,
      job_title |-> js[i].job_title,
      keyword |-> unit[1], location |-> unit[2],
      scraped_at |-> ts[i]]]

\* The path is pushed whatever takeScreenshot returned.
captureAlwaysStores(store, tag, written) == Append(store, tag)

\* captureAndStore: the path is pushed when takeScreenshot returned one.
captureAndStore(store, tag, written) ==
  IF written THEN Append(store, tag) ELSE store

InitUnit ==
  /\ impl \in {"local", "server"}
  /\ envSet = TRUE
  /\ keywordList = <<1>> /\ locationMap = <<1>>
  /\ pc = "uStart"
  /\ ki = 1 /\ li = 1
  /\ browser = 1 /\ page = 1
  /\ nLaunched = 1 /\ connected = {1} /\ closedB = {}
  /\ pageOpen \in {{1}, {}}
  /\ err = NoErr /\ exc = FALSE
  /\ totalScraped = 0 /\ totalInserted = 0 /\ errors = <<>>
  /\ outcome = "none"
  /\ started = <<>> /\ delays = <<>> /\ dispatched = <<>>
  /\ navs = <<>> /\ extracted = <<>> /\ recLog = <<>> /\ crashed = {}
  /\ faults = 0
  /\ rawKeywords = <<>> /\ rawLocations = <<>>
  /\ memStops = <<>>
  /\ handlers = <<>>
  /\ audit = FALSE /\ responses = <<>>
  /\ jobUrl = <<>> /\ urlOut = <<>>
  /\ trail = <<>> /\ screenshots = <<>> /\ onListing = FALSE
  /\ cards = <<>> /\ jobs = <<>> /\ clock = 0 /\ sent = <<>>

unitFrame == <<requestVars, guardVars, handlers, audit, urlVars, respVars,
               loopVars, handleVars, nLaunched, closedB, exc, outcome,
               logVars, recVars, faults>>
sessionVars == <<connected, pageOpen, onListing>>
dataVars == <<cards, jobs, clock, sent>>

Settled(op, ok) == trail' = Append(trail, [op |-> op, ok |-> ok])

\* An exception reaches the unit's catch block.
UThrow(m) ==
  /\ pc' = "uCatch"
  /\ err' = [msg |-> m, src |-> "scrape"]

\* local 341-349: the connectivity check, then page.goto is issued.
UStart ==
  /\ pc = "uStart"
  /\ IF impl = "local" /\ ~isConnected(browser)
       THEN UThrow("other")
       ELSE pc' = "uGoto" /\ err' = err
  /\ UNCHANGED <<unitFrame, sessionVars, dataVars, totalVars, errors, trail,
                 screenshots>>

\* page.goto settles (local 349, server 238-241); the page may have been
\* redirected away from the listing.
UGoto ==
  /\ pc = "uGoto"
  /\ \/ /\ PageUsable(page)
        /\ Settled("goto", TRUE)
        /\ onListing' \in BOOLEAN
        /\ pc' = "uShotImmediate" /\ err' = err
     \/ /\ Settled("goto", FALSE)
        /\ onListing' = onListing
        /\ \E m \in Msgs : UThrow(m)
  /\ UNCHANGED <<unitFrame, connected, pageOpen, dataVars, totalVars, errors,
                 screenshots>>

\* The checkpoints, with the tag of the file name and what follows.
CapturePoints ==
  {"uShotImmediate", "uShotInitial", "uShotNoResults", "uShotPreScrape",
   "uShotError"}

CaptureTag(p) ==
  CASE p = "uShotImmediate" -> "IMMEDIATE"
    [] p = "uShotInitial" -> "initial"
    [] p = "uShotNoResults" -> "no-results"
    [] p = "uShotPreScrape" -> "pre-scrape"
    [] p = "uShotError" -> "ERROR"

AfterCapture(p) ==
  CASE p = "uShotImmediate" -> "uSettle"
    [] p = "uShotInitial" -> "uDismiss"
    [] p = "uShotNoResults" -> "uNoResults"
    [] p = "uShotPreScrape" -> "uExtract"
    [] p = "uShotError" -> "uFail"

\* server.js 306: the result of the no-results capture is discarded.
Stored(p) == ~(impl = "server" /\ p = "uShotNoResults")

\* takeScreenshot (local 114-128, server 52-74) called at a checkpoint:
\* null when the page is closed or page.screenshot throws, the path
\* otherwise; then captureAndStore.
UCapture ==
  /\ pc \in CapturePoints
  /\ \E written \in BOOLEAN :
       /\ written => PageUsable(page)
       /\ screenshots' = IF Stored(pc)
                           THEN captureAndStore(screenshots, CaptureTag(pc),
                                                written)
                           ELSE screenshots
  /\ pc' = AfterCapture(pc)
  /\ UNCHANGED <<unitFrame, sessionVars, dataVars, totalVars, errors, err,
                 trail>>

\* The session is checked, the address of the page is not.
SessionAlive == ~isClosed(page) /\ isConnected(browser)

\* The three checks made after the settle delay (local 358-366, server
\* 255-269).
StillOnListing == ~isClosed(page) /\ isConnected(browser) /\ onListing

\* After the settle delay: a failed check throws.
USettle ==
  /\ pc = "uSettle"
  /\ IF StillOnListing
       THEN Settled("validate", TRUE) /\ pc' = "uShotInitial" /\ err' = err
       ELSE Settled("validate", FALSE) /\ UThrow("other")
  /\ UNCHANGED <<unitFrame, sessionVars, dataVars, totalVars, errors,
                 screenshots>>

\* closeSignInModal (local 231-241, server 279-288): whatever happens is
\* swallowed.
UDismiss ==
  /\ pc = "uDismiss"
  /\ \E ok \in BOOLEAN : (ok => PageUsable(page)) /\ Settled("dismiss", ok)
  /\ pc' = "uWaitList"
  /\ UNCHANGED <<unitFrame, sessionVars, dataVars, totalVars, errors, err,
                 screenshots>>

\* The wait for the results container with its failure swallowed, as the
\* wait for the sign-in overlay is.
UWaitListSwallows ==
  /\ pc = "uWaitList"
  /\ \E ok \in BOOLEAN : (ok => PageUsable(page)) /\ Settled("waitList", ok)
  /\ pc' = "uCount" /\ err' = err
  /\ UNCHANGED <<unitFrame, sessionVars, dataVars, totalVars, errors,
                 screenshots>>

\* waitForSelector on the results container (local 377-380, server
\* 292-295): visible within the timeout, or it throws.
UWaitList ==
  /\ pc = "uWaitList"
  /\ \/ /\ PageUsable(page)
        /\ Settled("waitList", TRUE)
        /\ pc' = "uCount" /\ err' = err
     \/ /\ Settled("waitList", FALSE)
        /\ \E m \in Msgs : UThrow(m)
  /\ UNCHANGED <<unitFrame, sessionVars, dataVars, totalVars, errors,
                 screenshots>>

\* local 382-389: after the stabilization delay the cards are counted by
\* page.evaluate.  server 298-301: a second waitForSelector for a card,
\* whose failure of any kind becomes null.
UCount ==
  /\ pc = "uCount"
  /\ \/ /\ PageUsable(page)
        /\ \E jobCardCount \in 0..MaxCards :
             /\ Settled("count", jobCardCount > 0)
             /\ pc' = IF jobCardCount > 0 THEN "uShotPreScrape"
                                          ELSE "uShotNoResults"
        /\ err' = err
     \/ /\ impl = "server"
        /\ ~PageUsable(page)
        /\ Settled("count", FALSE)
        /\ pc' = "uShotNoResults"
        /\ err' = err
     \/ /\ impl = "local"
        /\ Settled("count", FALSE)
        /\ \E m \in Msgs : UThrow(m)
  /\ UNCHANGED <<unitFrame, sessionVars, dataVars, totalVars, errors,
                 screenshots>>

\* local 391-400 (after the extra wait), server 303-310.
UNoResults ==
  /\ pc = "uNoResults"
  /\ UThrow("noListings")
  /\ UNCHANGED <<unitFrame, sessionVars, dataVars, totalVars, errors, trail,
                 screenshots>>

\* The records are sent whether or not there are any.
SendAlways(s, batch) == Append(s, batch)

\* The records are sent when there is at least one.
Send(s, batch) == IF Len(batch) > 0 THEN Append(s, batch) ELSE s

\* extractJobs settles (local 409-434, server 323-405); the records are
\* stamped, counted and, when there are any, passed to
\* sendBulkJobsToSupabase (local 520-526, server 407-413).
UExtract ==
  /\ pc = "uExtract"
  /\ \/ /\ PageUsable(page)
        /\ Settled("extract", TRUE)
        /\ \E cs \in CardSeqs :
             /\ cards' = cs
             /\ \E ts \in ClockReadings(Len(extractJobs(cs))) :
                  /\ jobs' = Stamp(extractJobs(cs), ts)
                  /\ clock' = IF ts = <<>> THEN clock ELSE ts[Len(ts)]
        /\ totalScraped' = AddScraped(totalScraped, Len(jobs'))
        /\ sent' = Send(sent, jobs')
        /\ pc' = IF Len(jobs') > 0 THEN "uIngest" ELSE "uEnd"
        /\ err' = err
     \/ /\ Settled("extract", FALSE)
        /\ \E m \in Msgs : UThrow(m)
        /\ UNCHANGED <<dataVars, totalScraped>>
  /\ UNCHANGED <<unitFrame, sessionVars, totalInserted, errors, screenshots>>

\* sendBulkJobsToSupabase settles (local 524-533, server 411-424).
UIngest ==
  /\ pc = "uIngest"
  /\ \/ /\ Settled("ingest", TRUE)
        /\ \E ins \in 0..MaxInserted :
             totalInserted' = AddInserted(totalInserted, ins)
        /\ errors' = errors
     \/ /\ Settled("ingest", FALSE)
        /\ errors' = Append(errors, [unit |-> unit, type |-> "ingest"])
        /\ totalInserted' = totalInserted
  /\ pc' = "uEnd"
  /\ UNCHANGED <<unitFrame, sessionVars, dataVars, totalScraped, err,
                 screenshots>>

\* The catch block (local 435-460, server 426-461): the error capture is
\* attempted on an open page of a connected browser only.
UCatch ==
  /\ pc = "uCatch"
  /\ pc' = IF PageUsable(page) THEN "uShotError" ELSE "uFail"
  /\ UNCHANGED <<unitFrame, sessionVars, dataVars, totalVars, errors, err,
                 trail, screenshots>>

\* The failure is recorded (local 536-544, server 463-472).
UFail ==
  /\ pc = "uFail"
  /\ errors' = Append(errors, [unit |-> unit, type |-> "scrape"])
  /\ err' = NoErr
  /\ pc' = "uEnd"
  /\ UNCHANGED <<unitFrame, sessionVars, dataVars, totalVars, trail,
                 screenshots>>

UAwaitPoints ==
  CapturePoints \cup {"uGoto", "uSettle", "uDismiss", "uWaitList", "uCount",
                      "uNoResults", "uExtract"}

\* The browser crashes or loses its connection while the unit awaits.
UCrash ==
  /\ pc \in UAwaitPoints
  /\ isConnected(browser)
  /\ connected' = connected \ {browser}
  /\ pageOpen' \in {pageOpen, pageOpen \ {browser}}
  /\ UNCHANGED <<unitFrame, pc, onListing, dataVars, totalVars, errors, err,
                 trail, screenshots>>

\* The page is closed while the unit awaits.
UPageClose ==
  /\ pc \in UAwaitPoints
  /\ PageUsable(page)
  /\ pageOpen' = pageOpen \ {page}
  /\ UNCHANGED <<unitFrame, pc, connected, onListing, dataVars, totalVars,
                 errors, err, trail, screenshots>>

\* The site sends the page elsewhere during the settle delay.
URedirect ==
  /\ pc = "uSettle"
  /\ onListing
  /\ onListing' = FALSE
  /\ UNCHANGED <<unitFrame, pc, connected, pageOpen, dataVars, totalVars,
                 errors, err, trail, screenshots>>

NextUnit ==
  \/ UStart \/ UGoto \/ UCapture \/ USettle \/ UDismiss \/ UWaitList
  \/ UCount \/ UNoResults \/ UExtract \/ UIngest \/ UCatch \/ UFail
  \/ UCrash \/ UPageClose \/ URedirect

SpecUnit == InitUnit /\ [][NextUnit]_vars

\* =================================================================
\* The id and the URL of one record
\* =================================================================
\* One result card with a title and the link `jobUrl`: extractJobs takes
\* the record's job_id from the link (local-bulk-scrape.js 264-276) and
\* scrapeLocation then rewrites the record's url (413-417).  Strings are
\* the piece sequences of the section on transformJobUrl.
DigitPieces == {"1234567890", "1"}

\* Group 1 of /\/jobs\/view\/.*?(\d+)/ in str, '' without a match: `.*?`
\* is lazy and `\d+` greedy, so it is the first whole run of digits after
\* the first "/jobs/view/".
FirstIdRun(str) ==
  LET v == FirstIn(str, {"/jobs/view/"}, 1)
      d == FirstIn(str, DigitPieces, v + 1)
  IN  IF v > Len(str) \/ d > Len(str) THEN <<>>
      ELSE SubSeq(str, d, RunEnd(str, d))

\* Lines 264-276: the pattern is matched against the path of the parsed
\* link, and against the raw link when `new URL` throws.
jobIdFromLink(str) ==
  IF str = <<>> THEN <<>>
  ELSE IF Parses(str) THEN FirstIdRun(pathname(str))
  ELSE FirstIdRun(str)

InitRecord ==
  /\ UnitIdle
  /\ jobUrl \in UrlInputs
  /\ urlOut = <<>>
  /\ impl = "local"
  /\ envSet = TRUE
  /\ keywordList = <<>> /\ locationMap = <<>>
  /\ pc = "rCard"
  /\ ki = 1 /\ li = 1
  /\ browser = 0 /\ page = 0
  /\ nLaunched = 0 /\ connected = {} /\ closedB = {} /\ pageOpen = {}
  /\ err = NoErr /\ exc = FALSE
  /\ totalScraped = 0 /\ totalInserted = 0 /\ errors = <<>>
  /\ outcome = "none"
  /\ started = <<>> /\ delays = <<>> /\ dispatched = <<>>
  /\ navs = <<>> /\ extracted = <<>> /\ recLog = <<>> /\ crashed = {}
  /\ faults = 0
  /\ rawKeywords = <<>> /\ rawLocations = <<>>
  /\ memStops = <<>>
  /\ handlers = <<>>
  /\ audit = FALSE /\ responses = <<>>

recordFrame == <<requestVars, guardVars, handlers, audit, urlVars, respVars,
                 loopVars, handleVars, engineVars, err, exc, totalVars,
                 errors, outcome, logVars, recVars, faults, trail,
                 screenshots, onListing, cards, clock, sent>>

\* extractJobs on the card: a record is pushed when the id is not empty
\* (the card has a title).
RExtract ==
  /\ pc = "rCard"
  /\ jobs' = IF jobIdFromLink(jobUrl) # <<>>
               THEN <<[job_id |-> jobIdFromLink(jobUrl), url |-> jobUrl]>>
               ELSE <<>>
  /\ pc' = "rExtracted"
  /\ UNCHANGED recordFrame

\* `jobs.forEach(job => { if (job.url) job.url = transformJobUrl(job.url) })`
RTransform ==
  /\ pc = "rExtracted"
  /\ jobs' = [i \in 1..Len(jobs) |->
                [job_id |-> jobs[i].job_id,
                 url |-> IF jobs[i].url # <<>>
                           THEN transformJobUrl(jobs[i].url)
                           ELSE jobs[i].url]]
  /\ pc' = "rDone"
  /\ UNCHANGED recordFrame

NextRecord == RExtract \/ RTransform

SpecRecord == InitRecord /\ [][NextRecord]_vars

\* =================================================================
\* The single-URL /scrape endpoint
\* =================================================================
\* One POST /scrape request and the scrapePage call it makes, in the three
\* servers that have one:
\*   impl = "server"   src/server.js 551-763 (the response waits for the
\*                     scrape)
\*   impl = "lovable"  src/lovable-server.js 59-259 (the same, without the
\*                     error alert)
\*   impl = "async"    src/unnamed/part_001 32-249 (202 at once, the result
\*                     is posted to the results endpoint afterwards)
\* `trail` lists the operations that have settled, `sent` the payloads
\* passed to sendResultsToSupabase, `err` the exception scrapePage is about
\* to reject with, `outcome` how scrapePage settled.  envSet says that the
\* endpoint the result goes to (INGEST_JOB_URL, SUPABASE_RESULT_URL) is
\* configured.
InitSingle ==
  /\ UnitIdle
  /\ impl \in {"server", "lovable", "async"}
  /\ envSet \in BOOLEAN
  /\ (impl = "server" => envSet)
  /\ keywordList = <<>> /\ locationMap = <<>>
  /\ pc = "sArrive"
  /\ ki = 1 /\ li = 1
  /\ browser = 0 /\ page = 0
  /\ nLaunched = 0 /\ connected = {} /\ closedB = {} /\ pageOpen = {}
  /\ err = NoErr /\ exc = FALSE
  /\ totalScraped = 0 /\ totalInserted = 0 /\ errors = <<>>
  /\ outcome = "none"
  /\ started = <<>> /\ delays = <<>> /\ dispatched = <<>>
  /\ navs = <<>> /\ extracted = <<>> /\ recLog = <<>> /\ crashed = {}
  /\ faults = 0
  /\ rawKeywords = <<>> /\ rawLocations = <<>>
  /\ memStops = <<>>
  /\ handlers = <<>>
  /\ audit = FALSE /\ responses = <<>>
  /\ jobUrl = <<>> /\ urlOut = <<>>

singleFrame == <<requestVars, guardVars, handlers, audit, urlVars, respVars,
                 loopVars, totalVars, errors, logVars, recVars, faults,
                 screenshots, onListing, cards, jobs, clock>>

\* An exception inside scrapePage's try: the catch block logs it and
\* throws it on, and the finally block is next.
SThrow(op) ==
  /\ Settled(op, FALSE)
  /\ err' = [msg |-> op, src |-> "scrape"]
  /\ exc' = TRUE
  /\ pc' = "sFinally"

\* An awaited operation succeeded.
SPass(op, next) ==
  /\ Settled(op, TRUE)
  /\ pc' = next
  /\ UNCHANGED <<err, exc>>

\* The handler's checks (server 552-562, lovable 60-70, part_001 36-48):
\* a bad request is answered at once; part_001 answers a good one with 202
\* and then calls scrapePage, the others call it first.
SArrive ==
  /\ pc = "sArrive"
  /\ \E valid \in BOOLEAN :
       IF ~valid
         THEN Settled("respond", FALSE) /\ pc' = "sEnd"
         ELSE /\ pc' = "sLaunch"
              /\ IF impl = "async" THEN Settled("respond", TRUE)
                                   ELSE trail' = trail
  /\ UNCHANGED <<singleFrame, handleVars, engineVars, err, exc, outcome,
                 sent>>

\* puppeteer.launch settles.
SLaunchBrowser ==
  /\ pc = "sLaunch"
  /\ \/ /\ SPass("launch", "sPage")
        /\ browser' = 1 /\ nLaunched' = 1 /\ connected' = {1}
     \/ /\ SThrow("launch")
        /\ UNCHANGED <<browser, nLaunched, connected>>
  /\ UNCHANGED <<singleFrame, page, closedB, pageOpen, outcome, sent>>

\* newPage, setViewport and setUserAgent settle.
SNewPage ==
  /\ pc = "sPage"
  /\ \/ /\ SPass("page", "sGoto")
        /\ page' = 1 /\ pageOpen' = {1}
     \/ /\ SThrow("page")
        /\ UNCHANGED <<page, pageOpen>>
  /\ UNCHANGED <<singleFrame, browser, nLaunched, connected, closedB,
                 outcome, sent>>

\* page.goto settles.
SGoto ==
  /\ pc = "sGoto"
  /\ \/ SPass("goto", "sEvaluate")
     \/ SThrow("goto")
  /\ UNCHANGED <<singleFrame, handleVars, engineVars, outcome, sent>>

\* page.evaluate settles.  server and lovable then require a title and
\* call sendToIngestJob; part_001 closes the browser.
SEvaluate ==
  /\ pc = "sEvaluate"
  /\ \/ SPass("evaluate", IF impl = "async" THEN "sClose" ELSE "sIngest")
     \/ impl # "async" /\ SThrow("title")
     \/ SThrow("evaluate")
  /\ UNCHANGED <<singleFrame, handleVars, engineVars, outcome, sent>>

\* sendToIngestJob settles (server 801-835, lovable 262-293): it throws
\* when the endpoint is not configured, the request fails or the answer
\* is not ok.
SIngest ==
  /\ pc = "sIngest"
  /\ \/ envSet /\ SPass("ingest", "sFinally")
     \/ SThrow("ingest")
  /\ UNCHANGED <<singleFrame, handleVars, engineVars, outcome, sent>>

\* part_001 183-200: `await browser.close(); browser = null;`, then the
\* success payload is passed to sendResultsToSupabase.
SClose ==
  /\ pc = "sClose"
  /\ \/ /\ SPass("close", "sPosting")
        /\ closedB' = closedB \cup {browser}
        /\ connected' = connected \ {browser}
        /\ pageOpen' = pageOpen \ {browser}
        /\ browser' = 0
        /\ sent' = Append(sent, [success |-> TRUE, error |-> "none"])
     \/ /\ SThrow("close")
        /\ UNCHANGED <<browser, closedB, connected, pageOpen, sent>>
  /\ UNCHANGED <<singleFrame, page, nLaunched, outcome>>

\* sendResultsToSupabase settles (part_001 218-249): nothing is fetched
\* when the endpoint is not configured; a failed request and an answer
\* that is not ok are logged.  It never throws.
SPosting ==
  /\ pc = "sPosting"
  /\ IF envSet THEN \E ok \in BOOLEAN : Settled("fetch", ok)
               ELSE trail' = trail
  /\ pc' = IF outcome = "none" THEN "sFinally" ELSE "sEnd"
  /\ UNCHANGED <<singleFrame, handleVars, engineVars, err, exc, outcome,
                 sent>>

\* A rejected close of the finally block leaves it as an exception in
\* server.js (757-762) and lovable-server.js (254-258), where it is awaited
\* bare; part_001 (210-214) catches and logs it.
closeGuardedIn(i) == i = "async"

\* The finally block, then scrapePage settles.
SFinally ==
  /\ pc = "sFinally"
  /\ IF browser = 0
       THEN /\ UNCHANGED <<closedB, connected, pageOpen, err, exc, trail>>
       ELSE \/ /\ Settled("close", TRUE)
               /\ closedB' = closedB \cup {browser}
               /\ connected' = connected \ {browser}
               /\ pageOpen' = pageOpen \ {browser}
               /\ UNCHANGED <<err, exc>>
            \/ /\ Settled("close", FALSE)
               /\ UNCHANGED <<closedB, connected, pageOpen>>
               /\ IF closeGuardedIn(impl)
                    THEN UNCHANGED <<err, exc>>
                    ELSE /\ err' = [msg |-> "close", src |-> "finally"]
                         /\ exc' = TRUE
  /\ outcome' = IF exc' THEN "rejected" ELSE "resolved"
  /\ pc' = "sSettled"
  /\ UNCHANGED <<singleFrame, handleVars, nLaunched, sent>>

\* The payload of the catch handler is passed on however the call settled.
reportsAlways(o) == TRUE

\* part_001 59-70: the handler passed to .catch runs when scrapePage has
\* rejected, and only then.
reportsFailure(o) == o = "rejected"

\* What follows scrapePage.  server 577-594 and lovable 77-88: the answer
\* is sent, 200 or 500 (after the error alert, which never throws).
\* part_001 59-70: a rejection is caught and the failure payload with the
\* error's message is passed to sendResultsToSupabase.
SSettled ==
  /\ pc = "sSettled"
  /\ IF impl = "async"
       THEN IF reportsFailure(outcome)
              THEN /\ sent' = Append(sent, [success |-> FALSE,
                                            error |-> err.msg])
                   /\ pc' = "sPosting"
                   /\ trail' = trail
              ELSE /\ pc' = "sEnd"
                   /\ UNCHANGED <<sent, trail>>
       ELSE /\ Settled("respond", outcome = "resolved")
            /\ pc' = "sEnd"
            /\ sent' = sent
  /\ UNCHANGED <<singleFrame, handleVars, engineVars, err, exc, outcome>>

NextSingle ==
  \/ SArrive \/ SLaunchBrowser \/ SNewPage \/ SGoto \/ SEvaluate \/ SIngest
  \/ SClose \/ SPosting \/ SFinally \/ SSettled

SpecSingle == InitSingle /\ [][NextSingle]_vars

\* Every awaited operation of the request settles.
SpecSingleLive == InitSingle /\ [][NextSingle]_vars /\ WF_vars(NextSingle)

\* =================================================================
\* The errors list of the memory-guarded handler over a long request
\* =================================================================
\* The loop of src/unnamed/part_000 with each unit condensed to the way
\* it ends, which is all the errors list depends on: the unit succeeds,
\* an operation of the scrape throws (the unit's catch block, 334-341), or
\* the ingestion throws (the inner catch block, 314-329).  SpecGuarded
\* has the same units operation by operation.  Units the memory guard
\* skips add nothing to the list and are left out.
MaxLongRun == 52              \* units of the request
MaxDelayed == 1               \* units that reach the delay of line 332

InitLongRun ==
  /\ impl = "guarded"
  /\ envSet = TRUE
  /\ keywordList = [i \in 1..MaxLongRun |-> i]
  /\ locationMap = <<1>>
  /\ pc = "gLoop"
  /\ ki = 1 /\ li = 1
  /\ browser = 1 /\ page = 1
  /\ nLaunched = 1 /\ connected = {1} /\ closedB = {} /\ pageOpen = {1}
  /\ err = NoErr /\ exc = FALSE
  /\ totalScraped = 0 /\ totalInserted = 0 /\ errors = <<>>
  /\ outcome = "none"
  /\ started = <<>> /\ delays = <<>> /\ dispatched = <<>>
  /\ navs = <<>> /\ extracted = <<>> /\ recLog = <<>> /\ crashed = {}
  /\ faults = 0
  /\ rawKeywords = <<>> /\ rawLocations = <<>>
  /\ memStops = <<>>
  /\ handlers = <<>>
  /\ audit = FALSE /\ responses = <<>>
  /\ jobUrl = <<>> /\ urlOut = <<>>
  /\ UnitIdle

longRunFrame == <<guardedFrame, guardVars, handleVars, engineVars, exc,
                  totalVars, outcome, started, dispatched, navs, extracted,
                  faults>>

\* Lines 191-332 without an exception: the delay, then the next unit.
LUnitSucceeds ==
  /\ pc = "gLoop"
  /\ Len(delays) < MaxDelayed
  /\ delays' = Append(delays, unit)
  /\ errors' = errors
  /\ GAdvance
  /\ UNCHANGED longRunFrame

\* Lines 334-341: goto, the wait for the list or evaluate threw.
LUnitScrapeFails ==
  /\ pc = "gLoop"
  /\ GFailUnit
  /\ UNCHANGED <<longRunFrame, delays>>

\* Lines 314-332: the ingestion threw; the entry is pushed under the cap,
\* then the delay and the next unit.
LUnitIngestFails ==
  /\ pc = "gLoop"
  /\ Len(delays) < MaxDelayed
  /\ errors' = PushCapped(errors, [unit |-> unit, type |-> "ingest"])
  /\ delays' = Append(delays, unit)
  /\ GAdvance
  /\ UNCHANGED longRunFrame

NextLongRun == LUnitSucceeds \/ LUnitScrapeFails \/ LUnitIngestFails

SpecLongRun == InitLongRun /\ [][NextLongRun]_vars

\* =================================================================
\* Properties
\* =================================================================
\* The unit matrix in nested order: outer keywords, inner locations.
AllUnits ==
  [n \in 1..(Len(keywordList) * Len(locationMap)) |->
     <<keywordList[((n - 1) \div Len(locationMap)) + 1],
       locationMap[((n - 1) % Len(locationMap)) + 1]>>]

\* The loop has been entered and left.
LoopOver == pc \in {"finally", "done", "rejected"} /\ ~exc /\ browser # 0

\* The position of unit u in the matrix (keywords and locations are named
\* by their positions in the input).
UnitIndex(u) == (u[1] - 1) * Len(locationMap) + u[2]

HasError(u) == \E i \in 1..Len(errors) : errors[i].unit = u

C2_RejectsOnlyBeforeLoop ==
  (impl = "local" /\ pc = "rejected") => started = <<>>

\* Recovery attempts made after unit u crashed: in u's failure handler and
\* in later units.
AfterCrash(u, e) ==
  \/ UnitIndex(e.unit) > UnitIndex(u)
  \/ e.unit = u /\ e.from = "catch"

\* C3: if the browser crashes at unit k and every recovery attempt from then
\* on fails, then (given no errors before k) every unit from k onward is
\* recorded as an error, the errors list has as many entries as there are
\* units from k to the last one, and runBulkScrape returns the summary.
C3_PermanentRecoveryFailure ==
  \A k \in 1..Len(AllUnits) :
    ( /\ impl = "local"
      /\ pc \in {"done", "rejected"}
      /\ started = AllUnits
      /\ AllUnits[k] \in crashed
      /\ \A i \in 1..Len(recLog) :
           AfterCrash(AllUnits[k], recLog[i]) => ~recLog[i].ok
      /\ \A i \in 1..Len(errors) : UnitIndex(errors[i].unit) >= k )
    => /\ outcome = "summary"
       /\ Len(errors) = Len(AllUnits) - k + 1
       /\ \A j \in k..Len(AllUnits) : HasError(AllUnits[j])

\* The recovery attempts between the failure of unit `prev` and the
\* navigation of the unit u that follows it.
Between(prev, u) ==
  {i \in 1..Len(recLog) :
     \/ recLog[i].unit = prev /\ recLog[i].from = "catch"
     \/ recLog[i].unit = u /\ recLog[i].from = "pre"}

\* The unit before u in nested order (u is not the first one).
Prev(u) ==
  IF u[2] > 1 THEN <<u[1], u[2] - 1>> ELSE <<u[1] - 1, Len(locationMap)>>

\* Navigations of a unit whose predecessor failed with the browser seen
\* disconnected.
NavsAfterCrash ==
  {j \in 1..Len(navs) :
     /\ UnitIndex(navs[j].unit) > 1
     /\ Prev(navs[j].unit) \in crashed}

\* C4: when unit k fails with the browser disconnected, exactly
\* one recovery attempt lies between that failure and the start of unit
\* k+1's navigation, and unit k has an error entry.
C4_ExactlyOneAttempt ==
  \A j \in NavsAfterCrash :
    /\ Cardinality(Between(Prev(navs[j].unit), navs[j].unit)) = 1
    /\ HasError(Prev(navs[j].unit))

\* C4, the form the loop satisfies: when unit k fails with the browser seen disconnected, unit k
\* has an error entry and its failure handler makes one recovery attempt; if
\* the browser is not connected when unit k+1 begins, the pre-unit check
\* makes a second one.  One or two attempts, the first in the handler, lie
\* between the failure and the start of unit k+1's navigation.
C4_OneOrTwoAttempts ==
  \A j \in NavsAfterCrash :
    LET u == navs[j].unit IN
    /\ Cardinality(Between(Prev(u), u)) \in {1, 2}
    /\ \E i \in Between(Prev(u), u) :
         recLog[i].unit = Prev(u) /\ recLog[i].from = "catch"
    /\ HasError(Prev(u))

\* Unit k crashed, its handler's recovery failed, the pre-unit check of
\* unit k+1 relaunched, and unit k+1 navigates.
C4_Witness ==
  \E j \in NavsAfterCrash :
    /\ Cardinality(Between(Prev(navs[j].unit), navs[j].unit)) = 2
    /\ pc = "goto"
    /\ navs[j].unit = unit

\* C5: whenever page.goto is issued the browser is connected and the page
\* handle used is open.
C5_SessionReadyAtGoto ==
  \A j \in 1..Len(navs) : navs[j].connected /\ navs[j].open

\* C6: a failed recovery is terminal for the session: once a recovery attempt has failed, no later attempt
\* relaunches a browser and no later unit navigates.
C6_FailedRecoveryTerminal ==
  \A i \in 1..Len(recLog) :
    ~recLog[i].ok =>
      /\ \A j \in (i + 1)..Len(recLog) : ~recLog[j].ok
      /\ \A j \in 1..Len(navs) :
           UnitIndex(navs[j].unit) <= UnitIndex(recLog[i].unit)

\* C6, the form the loop satisfies: a failed recovery is not terminal.  A unit whose pre-unit
\* recovery attempt fails does not navigate and is recorded as an error, no
\* unit issues a navigation with a disconnected browser, and a later unit's
\* attempt may succeed.
C6_FailedRecoveryFailsUnit ==
  /\ \A i \in 1..Len(recLog) :
       (recLog[i].from = "pre" /\ ~recLog[i].ok) =>
         /\ \A j \in 1..Len(navs) : navs[j].unit # recLog[i].unit
         /\ HasError(recLog[i].unit) \/ (pc = "catch" /\ unit = recLog[i].unit)
  /\ \A j \in 1..Len(navs) : navs[j].connected

\* A pre-unit recovery failed, a later one succeeded and its unit navigates.
C6_Witness ==
  \E i, j \in 1..Len(recLog) :
    /\ i < j
    /\ recLog[i].from = "pre" /\ ~recLog[i].ok
    /\ recLog[j].ok
    /\ HasError(recLog[i].unit)
    /\ \E n \in 1..Len(navs) : navs[n].unit = recLog[j].unit

\* C7: at every point of a run at most one browser launched by the run is
\* live (launched and not yet closed).
C7_AtMostOneLive == Cardinality(Live) <= 1

\* A unit is in flight: its iteration began and its delay has not elapsed.
InFlight ==
  pc \in {"recoverPre", "goto", "settle", "waitList", "count", "extract",
          "ingest", "catch", "recoverCatch", "delay"}

\* C8: the inter-unit delay runs after every unit and before the next unit
\* starts, whatever the unit's outcome: between units the delays are exactly
\* the units started, and while a unit is in flight they are the units
\* started before it.
C8_DelayAfterEveryUnit ==
  IF InFlight THEN started = Append(delays, unit) ELSE delays = started

\* The delay ran after a unit whose failure handler's recovery attempt
\* failed, and the next unit is about to start.
C8_Witness ==
  /\ pc = "loop"
  /\ delays # <<>>
  /\ \E i \in 1..Len(recLog) :
       /\ recLog[i].unit = delays[Len(delays)]
       /\ recLog[i].from = "catch"
       /\ ~recLog[i].ok

\* C9: the ingested total is at most the extracted total, whatever the
\* ingestion service reports in `inserted`.
C9_InsertedAtMostScraped == totalInserted <= totalScraped

NonEmpty(e) == e.jobs > 0

\* C10: the calls of sendBulkJobsToSupabase made so far are, in order, the
\* non-empty extractions made so far, each with its unit's record count, and
\* no unit has two calls.  This holds in every state: a unit's records are
\* handed over in the step in which they are extracted, hence before any
\* later navigation, and nothing that happens later removes, repeats or
\* alters a call already made.
C10_DispatchStreamed ==
  /\ dispatched = SelectSeq(extracted, NonEmpty)
  /\ \A i, j \in 1..Len(dispatched) :
       dispatched[i].unit = dispatched[j].unit => i = j

\* The first unit's records were dispatched, a later unit crashed and its
\* recovery failed, and the run is over.
C10_Witness ==
  /\ pc = "done"
  /\ \E d \in 1..Len(dispatched) : dispatched[d].unit = AllUnits[1]
  /\ \E u \in crashed : UnitIndex(u) > 1
  /\ \E i \in 1..Len(recLog) :
       ~recLog[i].ok /\ UnitIndex(recLog[i].unit) > 1

\* The ingestion call of the unit settles with a failure (a non-2xx response
\* or a request error).
IngestFails == pc = "ingest" /\ pc' # "ingest" /\ faults' = faults + 1

\* C11: an ingestion failure is isolated to its unit: the step appends
\* exactly one error entry for the unit, starts no recovery, leaves the
\* browser/page session and the totals as they are, and goes on to the
\* inter-unit delay exactly as a successful ingestion does.
C11_IngestFailureIsolated ==
  [][IngestFails =>
       /\ errors' = Append(errors, [unit |-> unit, type |-> "ingest"])
       /\ pc' = "delay"
       /\ UNCHANGED <<handleVars, engineVars, totalVars, recVars, loopVars,
                      outcome, exc>>]_vars

\* A unit's ingestion failed, nothing was relaunched, and the next unit
\* navigates on the browser launched at the start.
C11_Witness ==
  /\ pc = "goto"
  /\ recLog = <<>>
  /\ nLaunched = 1 /\ browser = 1 /\ page = 1
  /\ \E i \in 1..Len(errors) :
       /\ errors[i].type = "ingest"
       /\ UnitIndex(errors[i].unit) + 1 = UnitIndex(unit)

\* The unit's results container appeared and held no result item: the
\* failure handler is about to run for 'No job listings found on page' on a
\* usable session.
ZeroItems == pc = "catch" /\ err.msg = "noListings" /\ PageUsable(page)

\* The extraction of the unit returns no record.
ZeroRecords ==
  /\ pc = "extract"
  /\ Len(extracted') = Len(extracted) + 1
  /\ extracted'[Len(extracted')].jobs = 0

\* C12: a unit whose results container appears but contains zero result
\* items is a valid zero-record outcome and adds no entry to the errors list.
C12_EmptyIsNotFailure == [][ZeroItems => errors' = errors]_vars

\* C12, the form the loop satisfies: a unit whose results container holds
\* no result item is recorded as a failure, with one error entry, no
\* recovery attempt and the session left as it is; the outcome without an
\* error entry is that of a unit whose extraction returns zero records.
C12_EmptyIsRecordedFailure ==
  [][/\ ZeroItems =>
          /\ errors' = Append(errors, [unit |-> unit, type |-> "scrape"])
          /\ pc' = "delay"
          /\ UNCHANGED <<handleVars, engineVars, totalVars, recLog>>
     /\ ZeroRecords =>
          /\ errors' = errors
          /\ pc' = "delay"
          /\ UNCHANGED <<handleVars, engineVars, totalInserted>>]_vars

\* The second unit of a run found no result item after the first one had
\* succeeded.
C12_Witness ==
  /\ ZeroItems
  /\ errors = <<>>
  /\ Len(extracted) = 1
  /\ UnitIndex(unit) = 2

\* The keyword list is empty after normalization, the location map is
\* empty, or a location id is not a finite number.
InvalidInput ==
  \/ normalizeKeywords(rawKeywords) = <<>>
  \/ rawLocations = <<>>
  \/ \E i \in 1..Len(rawLocations) : rawLocations[i] = "nan"

\* C13: invalid or empty input fails before any side effect: once it has
\* been validated the run has failed with an error, and no browser has been
\* launched, no navigation issued and no ingestion call made.
C13_InvalidInputFailsFirst ==
  (InvalidInput /\ pc # "input") =>
    /\ pc = "rejected" \/ outcome = "error"
    /\ nLaunched = 0 /\ navs = <<>> /\ dispatched = <<>>

\* ---------------------------------------------------------------- C14
\* C14: in the memory-guarded handler, once a memory sample taken before a
\* unit has exceeded the ceiling, no unit is started afterwards in that
\* run, in the current keyword or in a later one, and the response is
\* still the success summary.
C14_GuardStopsRun ==
  memStops # <<>> =>
    /\ Len(started) = memStops[1]
    /\ pc \in {"gFinally", "done", "rejected"} => outcome = "summary"

\* ---------------------------------------------------------------- C15
\* A handler that has begun to launch or is working on a unit.
Busy(r) == handlers[r].pc \notin {"arrive", "done"}

\* C15: at most one session and one unit are in flight in the server
\* process: while one /bulk-scrape handler is between its launch and its
\* end, no other handler launches a browser or navigates.
C15_OneRunInProcess ==
  /\ Cardinality(Live) <= 1
  /\ Cardinality({r \in DOMAIN handlers : Busy(r)}) <= 1

\* ---------------------------------------------------------------- C16
RECURSIVE SumJobs(_)
SumJobs(es) == IF es = <<>> THEN 0 ELSE es[1].jobs + SumJobs(Tail(es))

RECURSIVE SumInserted(_)
SumInserted(rs) ==
  IF rs = <<>> THEN 0 ELSE rs[1].inserted + SumInserted(Tail(rs))

\* The unit at hand has reached its delay without completing extraction.
EndedWithoutExtraction ==
  /\ pc = "delay"
  /\ extracted = <<>> \/ extracted[Len(extracted)].unit # unit

C17_AllBrowsersClosedAtEnd ==
  pc \in {"done", "rejected"} => Live = {}

\* ---------------------------------------------------------------- C18
\* C18: transformJobUrl is idempotent: applying it to its own result
\* gives that result again, for every input.
C18_Idempotent == Len(urlOut) = 2 => urlOut[2] = urlOut[1]

\* A URL was rewritten by the first application and left alone by the
\* second.
C18_Witness ==
  /\ Len(urlOut) = 2
  /\ jobUrl = <<"https://h", "/jobs/view/", "a", "-", "1234567890">>
  /\ urlOut[1] = <<"https://h", "/jobs/view/", "1234567890">>
  /\ urlOut[2] = urlOut[1]

\* ---------------------------------------------------------------- C19
\* A hyphen at position j of str followed by a run of 10 to 12 digits.
IdSegmentAt(str, j) ==
  /\ str[j] = "-"
  /\ RunLength(str, j + 1, RunEnd(str, j + 1)) \in 10..12

IdSegment(str, j) == SubSeq(str, j + 1, RunEnd(str, j + 1))

\* C19 as stated: for every URL that parses and whose path contains a
\* 10-12 digit id segment preceded by a hyphen, transformJobUrl returns
\* origin + "/jobs/view/" + id, id being that segment.
C19_AnyPathIdCanonicalized ==
  LET path == pathname(jobUrl) IN
  (/\ Len(urlOut) >= 1
   /\ Parses(jobUrl)
   /\ \E j \in 1..Len(path) : IdSegmentAt(path, j))
  => \E j \in 1..Len(path) :
       /\ IdSegmentAt(path, j)
       /\ urlOut[1] = origin(jobUrl) \o <<"/jobs/view/">> \o IdSegment(path, j)

\* C19, amended: for every URL that parses and whose path contains
\* "/jobs/view/" and, after it, a hyphen and a 10-12 digit id segment that
\* ends the path, transformJobUrl returns origin + "/jobs/view/" + id, id
\* being that segment.
C19_JobViewPathCanonicalized ==
  LET path == pathname(jobUrl) IN
  \A j \in 1..Len(path) :
    (/\ Len(urlOut) >= 1
     /\ Parses(jobUrl)
     /\ IdSegmentAt(path, j)
     /\ RunEnd(path, j + 1) = Len(path)
     /\ \E i \in 1..(j - 1) : path[i] = "/jobs/view/")
    => urlOut[1] = origin(jobUrl) \o <<"/jobs/view/">> \o IdSegment(path, j)

\* An http URL with an eleven-digit id at the end of its path, rewritten.
C19_Witness ==
  /\ jobUrl = <<"http://h", "/jobs/view/", "-", "1234567890", "1">>
  /\ Len(urlOut) = 1
  /\ urlOut[1] = <<"http://h", "/jobs/view/", "1234567890", "1">>

\* ---------------------------------------------------------------- C20
\* C20 as stated: an input that fails to parse as a URL, or that parses
\* but whose path has no id segment, is returned unchanged.
C20_NoPathIdUnchanged ==
  LET path == pathname(jobUrl) IN
  (/\ Len(urlOut) >= 1
   /\ \/ ~Parses(jobUrl)
      \/ ~\E j \in 1..Len(path) : IdSegmentAt(path, j))
  => urlOut[1] = jobUrl

\* C20, amended: a string that fails to parse as a URL, or that parses
\* but has no id segment in its path, query or fragment, is returned
\* unchanged.
C20_NoIdUnchanged ==
  (/\ Len(urlOut) >= 1
   /\ \/ ~Parses(jobUrl)
      \/ ~\E j \in AuthorityEnd(jobUrl)..Len(jobUrl) : IdSegmentAt(jobUrl, j))
  => urlOut[1] = jobUrl

\* A relative job URL: it holds an id segment but does not parse.
C20_Witness ==
  /\ jobUrl = <<"/jobs/view/", "a", "-", "1234567890">>
  /\ Len(urlOut) = 1
  /\ urlOut[1] = jobUrl

\* ---------------------------------------------------------------- C21
\* The failure being handled calls for no recovery: the browser is seen
\* connected (or, in runBulkScrape after a failed pre-unit relaunch, not
\* sampled at all) and the message names no closed target.
OrdinaryFailure ==
  /\ pc = "catch"
  /\ err.msg # "targetClosed"
  /\ isConnected(browser) \/ (impl = "local" /\ err.src = "recover")

\* The failure being handled was met with the browser seen disconnected
\* or with a message that names a closed target or a detached frame.
CrashFailure ==
  /\ pc = "catch"
  /\ \/ err.msg = "targetClosed"
     \/ ~isConnected(browser) /\ ~(impl = "local" /\ err.src = "recover")

\* C21: after a failed unit recovery is invoked only when the browser was
\* observed disconnected at failure time or the message signals a closed
\* target or detached frame; the handling of any other failure records the
\* error and goes to the delay, leaving the browser and page handles, the
\* engine and the recovery log as they are.
C21_RecoveryOnlyOnCrash ==
  [][/\ OrdinaryFailure =>
          /\ pc' = "delay"
          /\ UNCHANGED <<handleVars, engineVars, recVars>>
     /\ (pc' = "recoverCatch" /\ pc # "recoverCatch") => CrashFailure]_vars

\* A unit failed with the browser connected, nothing was relaunched, and
\* the next unit navigates with the handles of the initial launch.
C21_Witness ==
  /\ pc = "goto" /\ recLog = <<>> /\ nLaunched = 1
  /\ browser = 1 /\ page = 1 /\ PageUsable(page)
  /\ \E i \in 1..Len(errors) :
       /\ errors[i].type = "scrape"
       /\ UnitIndex(errors[i].unit) + 1 = UnitIndex(unit)

\* ---------------------------------------------------------------- C22
\* The unit at hand ended with zero result items and its failure is about
\* to be handled.
EmptyOutcome == pc = "catch" /\ err.msg = "noListings"

\* C22 as stated: a unit that ends with zero result items never triggers a
\* recovery, whatever the browser's state is observed to be.
C22_EmptyNeverRecovers ==
  [][EmptyOutcome => pc' # "recoverCatch"]_vars

\* C22, amended: a unit that ends with zero result items triggers a
\* recovery exactly when the browser is observed disconnected as the
\* failure is handled; observed connected, it goes to the delay with the
\* handles and the engine untouched.
C22_EmptyRecoversOnlyIfDisconnected ==
  [][EmptyOutcome =>
       IF isConnected(browser)
         THEN pc' = "delay" /\ UNCHANGED <<handleVars, engineVars, recLog>>
         ELSE pc' = "recoverCatch" /\ unit \in crashed']_vars

\* Zero items were reported and the browser is seen disconnected.
C22_Witness == EmptyOutcome /\ ~isConnected(browser) /\ Len(navs) = 1


\* ---------------------------------------------------------------- C23
\* C23: in the memory-guarded handler, when the navigation of a unit
\* begins, the inter-unit delay has been executed after every unit started
\* before it, whether that unit succeeded or failed in navigation or
\* extraction.
C23_GuardedDelayAfterEveryUnit ==
  pc = "gGoto" => delays = SubSeq(started, 1, Len(started) - 1)


\* ---------------------------------------------------------------- C24
\* The operation op has settled for the unit, with whatever result.
Did(op) == \E i \in 1..Len(trail) : trail[i].op = op
Passed(op) == \E i \in 1..Len(trail) : trail[i] = [op |-> op, ok |-> TRUE]
Missed(op) == \E i \in 1..Len(trail) : trail[i] = [op |-> op, ok |-> FALSE]

\* C24: when the settle delay is over and the page is closed, the browser
\* disconnected or the address off the listing path, the unit fails right
\* there; and a unit that failed there performs no overlay dismissal,
\* readiness wait, count, extraction or ingestion call and adds nothing to
\* the totals.
C24_FailedValidationEndsUnit ==
  /\ [][(/\ pc = "uSettle" /\ pc' # "uSettle"
         /\ isClosed(page) \/ ~isConnected(browser) \/ ~onListing)
        => (pc' = "uCatch" /\ Missed("validate")')]_vars
  /\ [](Missed("validate") =>
          /\ pc \in {"uCatch", "uShotError", "uFail", "uEnd"}
          /\ \A op \in {"dismiss", "waitList", "count", "extract", "ingest"} :
               ~Did(op)
          /\ sent = <<>> /\ jobs = <<>>
          /\ totalScraped = 0 /\ totalInserted = 0)

\* The unit has ended after a redirect on a live session: the validation
\* failed and one error entry was made.
C24_Witness ==
  /\ pc = "uEnd" /\ Missed("validate")
  /\ PageUsable(page) /\ ~onListing
  /\ Len(errors) = 1


\* ---------------------------------------------------------------- C25
\* The operations a, b, c and d succeeded for the unit, in this order.
PassedInOrder(a, b, c, d) ==
  \E i, j, k, l \in 1..Len(trail) :
    /\ i < j /\ j < k /\ k < l
    /\ trail[i] = [op |-> a, ok |-> TRUE]
    /\ trail[j] = [op |-> b, ok |-> TRUE]
    /\ trail[k] = [op |-> c, ok |-> TRUE]
    /\ trail[l] = [op |-> d, ok |-> TRUE]

\* C25: extraction is under way or over only when the navigation returned,
\* then the post-navigation validation passed, then the results container
\* became visible in time, then cards were counted; and a unit whose wait
\* for the container failed performs no count, extraction or ingestion and
\* ends with exactly one error entry.
C25_ExtractionAfterReadiness ==
  /\ (pc = "uExtract" \/ Did("extract")) =>
       PassedInOrder("goto", "validate", "waitList", "count")
  /\ Missed("waitList") =>
       /\ pc \in {"uCatch", "uShotError", "uFail", "uEnd"}
       /\ ~Did("count") /\ ~Did("extract") /\ ~Did("ingest")
       /\ sent = <<>>
       /\ Len(errors) = IF pc = "uEnd" THEN 1 ELSE 0

\* The records of a unit have been extracted and handed to ingestion.
C25_Witness ==
  /\ pc = "uIngest" /\ Passed("extract") /\ Len(jobs) > 0


\* ---------------------------------------------------------------- C26
\* C26: a capture at any of the five checkpoints never raises and never
\* changes the unit's course: whether or not a file was written, the unit
\* goes on with the statement that follows the checkpoint, the exception in
\* flight, the totals, the error list, the records and the calls made are
\* untouched, and the screenshots list either stays as it is or gains the
\* path of a file written on an open page of a connected browser.
C26_CaptureNeverRaises ==
  [][(pc \in CapturePoints /\ pc' # pc) =>
       /\ pc' = AfterCapture(pc)
       /\ UNCHANGED <<totalVars, errors, err, trail, jobs, sent>>
       /\ \/ screenshots' = screenshots
          \/ /\ PageUsable(page)
             /\ screenshots' = Append(screenshots, CaptureTag(pc))]_vars

\* Every capture of a unit failed, and its records were extracted and
\* handed to ingestion all the same.
C26_Witness ==
  /\ pc = "uIngest" /\ Passed("extract")
  /\ screenshots = <<>>


\* ---------------------------------------------------------------- C27
\* C27: a unit makes at most one call of sendBulkJobsToSupabase and no call
\* carries an empty batch; a unit that has not extracted, or whose
\* extraction produced no valid record, has made no call and awaits none.
C27_OneNonEmptyBatch ==
  /\ Len(sent) <= 1
  /\ \A i \in 1..Len(sent) : Len(sent[i]) > 0 /\ sent[i] = jobs
  /\ (~Passed("extract") \/ jobs = <<>>) =>
       sent = <<>> /\ pc # "uIngest" /\ ~Did("ingest")
  /\ (pc = "uIngest" \/ Did("ingest")) => Len(sent) = 1

\* The page held cards, none of them yielded a valid record, and the unit
\* ended without a call.
C27_Witness ==
  /\ pc = "uEnd" /\ Passed("extract")
  /\ cards # <<>> /\ jobs = <<>> /\ sent = <<>>
  /\ errors = <<>>


\* ---------------------------------------------------------------- C28
\* C28: all records of the unit carry the same metadata stamp: the same
\* keyword, the same location and one scraped_at value, whatever the clock
\* does while the records are being stamped.
C28_OneStampPerUnit ==
  \A i, j \in 1..Len(jobs) :
    /\ jobs[i].keyword = jobs[j].keyword
    /\ jobs[i].location = jobs[j].location
    /\ jobs[i].scraped_at = jobs[j].scraped_at


\* ---------------------------------------------------------------- C29
\* The card can be read, has a title with visible text and links to a job
\* view with an id.
Complete(c) ==
  ~c.throws /\ c.title \notin {"none", " "} /\ c.href = "/jobs/view/7"

\* C29: once the extraction has returned, every record counted in the
\* total and sent has a non-empty id and a non-empty title; the records are
\* exactly those of the complete cards, in document order, each with the
\* text of its own card, so an incomplete or throwing card is dropped
\* without touching the others; and the unit has not failed.
C29_OnlyCompleteCardsKept ==
  Passed("extract") =>
    /\ \A i \in 1..Len(jobs) : jobs[i].job_id # "" /\ jobs[i].job_title # ""
    /\ totalScraped = Len(jobs)
    /\ \A i \in 1..Len(sent) : sent[i] = jobs
    /\ {jobs[i].card : i \in 1..Len(jobs)}
         = {k \in 1..Len(cards) : Complete(cards[k])}
    /\ \A i, j \in 1..Len(jobs) : i < j => jobs[i].card < jobs[j].card
    /\ \A i \in 1..Len(jobs) : jobs[i].job_title = cards[jobs[i].card].title
    /\ pc \in {"uIngest", "uEnd"}
    /\ \A e \in 1..Len(errors) : errors[e].type # "scrape"

\* The first card threw while it was read, the second was complete: one
\* record, that of the second card, is being sent.
C29_Witness ==
  /\ pc = "uIngest"
  /\ Len(cards) = 2 /\ cards[1].throws
  /\ Len(jobs) = 1 /\ jobs[1].card = 2


\* ---------------------------------------------------------------- C30
\* The run is over: the caller has its summary, its error or its rejection.
Finished == pc \in {"done", "rejected"}

\* C30: every run eventually finishes, whatever fails on the way; and at no
\* time has a unit been started twice or navigated to twice, so no unit is
\* retried and no failure, of a recovery or of anything else, makes the
\* loop go over a unit again.
C30_RunFinishes ==
  /\ <>Finished
  /\ [](\A i, j \in 1..Len(started) : started[i] = started[j] => i = j)
  /\ [](\A i, j \in 1..Len(navs) : navs[i].unit = navs[j].unit => i = j)

\* A run over several units is finished although a recovery failed on the
\* way.
C30_Witness ==
  /\ Finished
  /\ Len(started) > 1
  /\ \E i \in 1..Len(recLog) : ~recLog[i].ok


\* ---------------------------------------------------------------- C31
\* C31: after any recovery attempt, whatever its result, the page handle
\* held by the loop is the page of the browser handle held by the loop.
C31_HandlesBelongTogether ==
  recLog # <<>> => page = browser


\* ---------------------------------------------------------------- C32
\* C32: no unit has two entries in the errors list, whether for a scrape
\* failure, an ingestion failure or a recovery that failed for it; every
\* entry belongs to a unit that was started, so the list is never longer
\* than the number of units started.
C32_OneErrorPerUnit ==
  /\ \A i, j \in 1..Len(errors) : errors[i].unit = errors[j].unit => i = j
  /\ \A i \in 1..Len(errors) :
       \E k \in 1..Len(started) : started[k] = errors[i].unit
  /\ Len(errors) <= Len(started)

\* The run is over; a unit failed in the scrape and the recovery attempted
\* in its failure handler failed as well: the unit has its one entry.
C32_Witness ==
  /\ pc = "done"
  /\ \E r \in 1..Len(recLog) :
       /\ recLog[r].from = "catch" /\ ~recLog[r].ok
       /\ \E i \in 1..Len(errors) : errors[i].unit = recLog[r].unit
  /\ Len(errors) = Len(started)


\* ---------------------------------------------------------------- C33
\* The url has the canonical form root + "/jobs/view/" + id, and id is
\* its id.
CanonicalWithId(url, id) ==
  \E v \in 1..Len(url) :
    /\ url[v] = "/jobs/view/"
    /\ v < Len(url)
    /\ \A k \in (v + 1)..Len(url) : url[k] \in {"1234567890", "1"}
    /\ id = SubSeq(url, v + 1, Len(url))

\* C33: when the url of a record has been rewritten to the canonical form
\* origin + "/jobs/view/" + id, the record's job_id is that id, whatever
\* the slug of the link holds before its trailing id.
C33_JobIdIsCanonicalId ==
  pc = "rDone" =>
    \A i \in 1..Len(jobs) :
      jobs[i].url # jobUrl =>
        CanonicalWithId(jobs[i].url, jobs[i].job_id)


\* How many times operation op has settled in the request.
Settlements(op) == Cardinality({i \in 1..Len(trail) : trail[i].op = op})

\* The request was answered with 202 by the asynchronous server.
Accepted ==
  /\ impl = "async"
  /\ \E i \in 1..Len(trail) : trail[i] = [op |-> "respond", ok |-> TRUE]

\* C34 as stated: when a request accepted with 202 has ended, exactly one
\* request to the results endpoint has been made for it.
C34_OnePostPerAccepted ==
  (Accepted /\ pc = "sEnd") => Settlements("fetch") = 1

\* C34 (amended): a request accepted with 202 by the asynchronous server
\* ends, and by then sendResultsToSupabase has been called exactly once
\* for it, with a success payload if scrapePage resolved and otherwise
\* with a failure payload carrying the error scrapePage rejected with;
\* that call made exactly one request to the results endpoint when the
\* endpoint is configured and none when it is not; the HTTP response was
\* sent exactly once; and whether the request to the results endpoint
\* failed changes none of this.
C34_OneResultPerAccepted ==
  /\ [](impl = "async" =>
          /\ Settlements("respond") <= 1
          /\ Len(sent) <= 1
          /\ Settlements("fetch") <= Len(sent))
  /\ []((Accepted /\ pc = "sEnd") =>
          /\ Settlements("respond") = 1
          /\ Len(sent) = 1
          /\ sent[1].success = (outcome = "resolved")
          /\ (~sent[1].success =>
                sent[1].error = err.msg /\ err.msg # "none")
          /\ Settlements("fetch") = IF envSet THEN 1 ELSE 0)
  /\ (Accepted ~> pc = "sEnd")

\* C34 witness: an accepted request has ended after a failed navigation,
\* and the request that carried the failure payload failed as well.
C34_Witness ==
  /\ Accepted /\ pc = "sEnd" /\ envSet
  /\ outcome = "rejected"
  /\ sent = <<[success |-> FALSE, error |-> "goto"]>>
  /\ \E i \in 1..Len(trail) : trail[i] = [op |-> "fetch", ok |-> FALSE]


\* C35: when scrapePage has settled after launching a browser,
\* browser.close has been called exactly once and the browser is closed,
\* and scrapePage rejected exactly when an operation of the scrape failed,
\* with that operation's error.
C35_ClosedOnceOriginalError ==
  (outcome # "none" /\ nLaunched = 1) =>
     /\ Settlements("close") = 1
     /\ closedB = {1}
     /\ (outcome = "rejected") =
          (\E i \in 1..Len(trail) :
             ~trail[i].ok /\ trail[i].op \notin {"close", "fetch"})
     /\ (outcome = "rejected" => err.src = "scrape")


\* C36: the errors list of the memory-guarded handler never holds more
\* than 50 entries.
C36_ErrorsWithinCap == impl = "guarded" => Len(errors) <= ErrorCap

====
